---------------------------- MODULE Spec2Model ----------------------------
(***************************************************************************)
(* A model of the spin-lock primitives of the atomics crate: Backoff,      *)
(* SpinMutex, SpinRwLock, the value-resident SpinSeqLock and the           *)
(* pointer-resident SpinSeqLockAtomicPtr.                                  *)
(*                                                                         *)
(* Every atomic memory access of the source (load, store, swap,            *)
(* compare_exchange, fetch_sub) is one step of one thread; thread-local    *)
(* work that follows an access (the branch on its result, backoff.snooze())*)
(* belongs to the same step; the locals of a call (its Backoff, `current`) *)
(* are reset when the call returns.  Memory is sequentially consistent:    *)
(* the acquire/release orderings of the source are not weakened further.   *)
(* Each primitive has its own specification over its own variables; the    *)
(* variables of the other primitives stay at their initial values.         *)
(***************************************************************************)
EXTENDS Integers, Sequences, FiniteSets, TLC

\* ------------------------------------------------------------------ bounds
\* Number of threads sharing a cell.
NThreads == 2
Threads == 1 .. NThreads

\* ----------------------------------------------------------------- Backoff
\* backoff.rs: pub(crate) const DEFAULT_SPIN_LIMIT: isize = 6
DEFAULT_SPIN_LIMIT == 6

\* Backoff::new(): step = 1
BackoffNew == 1

\* Backoff::<B>::snooze(): the step after one call (std feature: a scheduler
\* is available).  B < 0 returns before step is touched; otherwise step grows
\* while step <= B.
BackoffSnooze(B, step) ==
    IF B < 0 THEN step
    ELSE IF step <= B THEN step + 1 ELSE step

\* --------------------------------------------------------------- SpinMutex
VARIABLES
    mutex_locked,   \* SpinMutexEx.locked : AtomicBool
    mutex_pc,       \* per thread: "idle" or "lock" (inside lock()'s loop)
    mutex_bk,       \* per thread: step of the Backoff local to lock()
    mutex_guards    \* per thread: number of live SpinMutexExGuard values

mutexvars == <<mutex_locked, mutex_pc, mutex_bk, mutex_guards>>

\* SpinMutexEx::new
MutexInit ==
    /\ mutex_locked = FALSE
    /\ mutex_pc = [t \in Threads |-> "idle"]
    /\ mutex_bk = [t \in Threads |-> BackoffNew]
    /\ mutex_guards = [t \in Threads |-> 0]

\* lock(): entry, let mut backoff = Backoff::new()
MutexLockCall(t) ==
    /\ mutex_pc[t] = "idle"
    /\ mutex_pc' = [mutex_pc EXCEPT ![t] = "lock"]
    /\ mutex_bk' = [mutex_bk EXCEPT ![t] = BackoffNew]
    /\ UNCHANGED <<mutex_locked, mutex_guards>>

\* A lock() whose compare_exchange was dropped: the flag is set whatever it held.
MutexCasBlind(cur) == TRUE

\* A lock() that expects the flag already set: compare_exchange(true, true).
MutexCasExpectsLocked(cur) == cur = TRUE

\* locked.compare_exchange(false, true, ..).is_ok()
MutexCasOk(cur) == cur = FALSE

\* lock(): one iteration of the loop
MutexLockCAS(t) ==
    /\ mutex_pc[t] = "lock"
    /\ IF MutexCasOk(mutex_locked)
       THEN /\ mutex_locked' = TRUE
            /\ mutex_guards' = [mutex_guards EXCEPT ![t] = @ + 1]
            /\ mutex_pc' = [mutex_pc EXCEPT ![t] = "idle"]
            /\ mutex_bk' = [mutex_bk EXCEPT ![t] = BackoffNew]
       ELSE /\ mutex_bk' = [mutex_bk EXCEPT ![t] =
                               BackoffSnooze(DEFAULT_SPIN_LIMIT, @)]
            /\ UNCHANGED <<mutex_locked, mutex_guards, mutex_pc>>

\* SpinMutexExGuard::drop
MutexGuardDrop(t) ==
    /\ mutex_pc[t] = "idle"
    /\ mutex_guards[t] > 0
    /\ mutex_locked' = FALSE
    /\ mutex_guards' = [mutex_guards EXCEPT ![t] = @ - 1]
    /\ UNCHANGED <<mutex_pc, mutex_bk>>

\* -------------------------------------------------------------- SpinRwLock
\* A bound of the model: how many guards of one cell a single thread may hold
\* at a time (read guards nest).
MaxHeld == 2

\* spin_rwlock.rs: const SPIN_RW_LOCK_LOCKED: isize = -1
SPIN_RW_LOCK_LOCKED == -1
\* spin_rwlock.rs: const SPIN_RW_LOCK_UNLOCKED: isize = 0
SPIN_RW_LOCK_UNLOCKED == 0

VARIABLES
    rw_readers,     \* SpinRwLockEx.readers : AtomicIsize
    rw_pc,          \* per thread: "idle", "write" or "read" (inside the loop)
    rw_current,     \* per thread: read()'s local `current`
    rw_bk,          \* per thread: step of the Backoff local to the call
    rw_rguards,     \* per thread: number of live SpinRwLockReadGuardEx values
    rw_wguards      \* per thread: number of live SpinRwLockWriteGuardEx values

rwvars == <<rw_readers, rw_pc, rw_current, rw_bk, rw_rguards, rw_wguards>>

\* SpinRwLockEx::new
RwInit ==
    /\ rw_readers = SPIN_RW_LOCK_UNLOCKED
    /\ rw_pc = [t \in Threads |-> "idle"]
    /\ rw_current = [t \in Threads |-> 0]
    /\ rw_bk = [t \in Threads |-> BackoffNew]
    /\ rw_rguards = [t \in Threads |-> 0]
    /\ rw_wguards = [t \in Threads |-> 0]

RwHeld(t) == rw_rguards[t] + rw_wguards[t]

\* write(): entry
RwWriteCall(t) ==
    /\ rw_pc[t] = "idle"
    /\ RwHeld(t) < MaxHeld
    /\ rw_pc' = [rw_pc EXCEPT ![t] = "write"]
    /\ rw_bk' = [rw_bk EXCEPT ![t] = BackoffNew]
    /\ UNCHANGED <<rw_readers, rw_current, rw_rguards, rw_wguards>>

\* A write() that takes the lock whenever no other writer holds it, readers
\* or not.
RwWriteCasIgnoresReaders(cur) == cur # SPIN_RW_LOCK_LOCKED

\* A write() that expects the sentinel already set:
\* compare_exchange(LOCKED, LOCKED).
RwWriteCasExpectsLocked(cur) == cur = SPIN_RW_LOCK_LOCKED

\* readers.compare_exchange(UNLOCKED, LOCKED, ..).is_ok()
RwWriteCasOk(cur) == cur = SPIN_RW_LOCK_UNLOCKED

\* write(): one iteration of the loop
RwWriteCAS(t) ==
    /\ rw_pc[t] = "write"
    /\ IF RwWriteCasOk(rw_readers)
       THEN /\ rw_readers' = SPIN_RW_LOCK_LOCKED
            /\ rw_wguards' = [rw_wguards EXCEPT ![t] = @ + 1]
            /\ rw_pc' = [rw_pc EXCEPT ![t] = "idle"]
            /\ rw_bk' = [rw_bk EXCEPT ![t] = BackoffNew]
       ELSE /\ rw_bk' = [rw_bk EXCEPT ![t] =
                            BackoffSnooze(DEFAULT_SPIN_LIMIT, @)]
            /\ UNCHANGED <<rw_readers, rw_wguards, rw_pc>>
    /\ UNCHANGED <<rw_current, rw_rguards>>

\* read(): entry, with the first readers.load(Relaxed)
RwReadCall(t) ==
    /\ rw_pc[t] = "idle"
    /\ RwHeld(t) < MaxHeld
    /\ rw_pc' = [rw_pc EXCEPT ![t] = "read"]
    /\ rw_bk' = [rw_bk EXCEPT ![t] = BackoffNew]
    /\ rw_current' = [rw_current EXCEPT ![t] = rw_readers]
    /\ UNCHANGED <<rw_readers, rw_rguards, rw_wguards>>

\* A read() that treats every nonzero counter as blocked: readers exclude
\* readers.
RwReadBlockedByAny(cur) == cur # SPIN_RW_LOCK_UNLOCKED

\* read(): if current == SPIN_RW_LOCK_LOCKED
RwReadBlocked(cur) == cur = SPIN_RW_LOCK_LOCKED

\* read(): one iteration of the loop.  Blocked: snooze and reload.  Otherwise
\* compare_exchange(current, current + 1): Ok returns the guard, Err(prev)
\* keeps prev and snoozes.
RwReadStep(t) ==
    /\ rw_pc[t] = "read"
    /\ IF RwReadBlocked(rw_current[t])
       THEN /\ rw_bk' = [rw_bk EXCEPT ![t] =
                            BackoffSnooze(DEFAULT_SPIN_LIMIT, @)]
            /\ rw_current' = [rw_current EXCEPT ![t] = rw_readers]
            /\ UNCHANGED <<rw_readers, rw_rguards, rw_pc>>
       ELSE IF rw_readers = rw_current[t]
            THEN /\ rw_readers' = rw_current[t] + 1
                 /\ rw_rguards' = [rw_rguards EXCEPT ![t] = @ + 1]
                 /\ rw_pc' = [rw_pc EXCEPT ![t] = "idle"]
                 /\ rw_bk' = [rw_bk EXCEPT ![t] = BackoffNew]
                 /\ rw_current' = [rw_current EXCEPT ![t] = 0]
            ELSE /\ rw_current' = [rw_current EXCEPT ![t] = rw_readers]
                 /\ rw_bk' = [rw_bk EXCEPT ![t] =
                                 BackoffSnooze(DEFAULT_SPIN_LIMIT, @)]
                 /\ UNCHANGED <<rw_readers, rw_rguards, rw_pc>>
    /\ UNCHANGED rw_wguards

\* A read guard whose drop stores UNLOCKED, as the write guard's does.
RwReadGuardDropResets(t) ==
    /\ rw_pc[t] = "idle"
    /\ rw_rguards[t] > 0
    /\ rw_readers' = SPIN_RW_LOCK_UNLOCKED
    /\ rw_rguards' = [rw_rguards EXCEPT ![t] = @ - 1]
    /\ UNCHANGED <<rw_pc, rw_current, rw_bk, rw_wguards>>

\* SpinRwLockReadGuardEx::drop: readers.fetch_sub(1)
RwReadGuardDrop(t) ==
    /\ rw_pc[t] = "idle"
    /\ rw_rguards[t] > 0
    /\ rw_readers' = rw_readers - 1
    /\ rw_rguards' = [rw_rguards EXCEPT ![t] = @ - 1]
    /\ UNCHANGED <<rw_pc, rw_current, rw_bk, rw_wguards>>

\* SpinRwLockWriteGuardEx::drop: readers.store(UNLOCKED)
RwWriteGuardDrop(t) ==
    /\ rw_pc[t] = "idle"
    /\ rw_wguards[t] > 0
    /\ rw_readers' = SPIN_RW_LOCK_UNLOCKED
    /\ rw_wguards' = [rw_wguards EXCEPT ![t] = @ - 1]
    /\ UNCHANGED <<rw_pc, rw_current, rw_bk, rw_rguards>>

\* ------------------------------------------------ SpinSeqLock (value-resident)
\* Bounds of the model: the payload is two words, each in 0 .. MaxVal, read
\* and written one word at a time; at most MaxWrites write-guard
\* acquisitions are started in a run; the version counter, a usize, is
\* SeqVersionBits bits wide.
MaxVal == 1
MaxWrites == 2
SeqVersionBits == 3

\* usize::MAX
SeqVersionMax == 2 ^ SeqVersionBits - 1

Words == 0 .. MaxVal
Payloads == Words \X Words

\* spin_seqlock.rs: const UNLOCKED_LOCK: usize = 1
SEQ_UNLOCKED_LOCK == 1
\* spin_seqlock.rs: const LOCKED: usize = 0
SEQ_LOCKED == 0

VARIABLES
    seq_version,    \* SpinSeqLockEx.version : AtomicUsize
    seq_data,       \* SpinSeqLockEx.data : UnsafeCell<T>, T of two words
    seq_guards,     \* live guards: [owner, kind: "read" | "write", v: prev | next]
    seq_op,         \* per thread: the public operation in progress, or "none"
    seq_pc,         \* per thread: position inside the operation
    seq_bk,         \* per thread: step of the Backoff local to read()/write()
    seq_loc,        \* per thread: locals [version, d, arg] of load()/store(), and
                    \* tries, the optimistic attempts the load() has made
    seq_stored,     \* history: the payloads the cell held whenever it was unlocked
    seq_wstarted,   \* history: write-guard acquisitions started
    seq_wreleased   \* history: write guards released

seqvars == <<seq_version, seq_data, seq_guards, seq_op, seq_pc, seq_bk,
             seq_loc, seq_stored, seq_wstarted, seq_wreleased>>

SeqNoLocals == [version |-> 0, d |-> <<0, 0>>, arg |-> <<0, 0>>, tries |-> 0]

\* SpinSeqLockEx::new(val), val the all-zero payload, the cell shared by the
\* threads of S
SeqInitOver(S) ==
    /\ seq_version = SEQ_UNLOCKED_LOCK
    /\ seq_data = <<0, 0>>
    /\ seq_guards = {}
    /\ seq_op = [t \in S |-> "none"]
    /\ seq_pc = [t \in S |-> "idle"]
    /\ seq_bk = [t \in S |-> BackoffNew]
    /\ seq_loc = [t \in S |-> SeqNoLocals]
    /\ seq_stored = {<<0, 0>>}
    /\ seq_wstarted = 0
    /\ seq_wreleased = 0

SeqInit == SeqInitOver(Threads)

SeqGuardsOf(t, k) == {g \in seq_guards : g.owner = t /\ g.kind = k}

\* read(): entry
SeqReadCall(t) ==
    /\ seq_pc[t] = "idle"
    /\ seq_op' = [seq_op EXCEPT ![t] = "read"]
    /\ seq_pc' = [seq_pc EXCEPT ![t] = "read"]
    /\ seq_bk' = [seq_bk EXCEPT ![t] = BackoffNew]
    /\ UNCHANGED <<seq_version, seq_data, seq_guards, seq_loc, seq_stored,
                   seq_wstarted, seq_wreleased>>

\* write(): entry
SeqWriteCall(t) ==
    /\ seq_pc[t] = "idle"
    /\ seq_op' = [seq_op EXCEPT ![t] = "write"]
    /\ seq_pc' = [seq_pc EXCEPT ![t] = "write"]
    /\ seq_bk' = [seq_bk EXCEPT ![t] = BackoffNew]
    /\ seq_wstarted' = seq_wstarted + 1
    /\ UNCHANGED <<seq_version, seq_data, seq_guards, seq_loc, seq_stored,
                   seq_wreleased>>

\* An acquisition that takes the guard whatever the swap returned.
SeqAlwaysAcquired(prev) == TRUE

\* read()/write(): if prev != Self::LOCKED
SeqAcquired(prev) == prev # SEQ_LOCKED

\* A write guard that restores the version it found, as a read guard does.
SeqWriteNextSame(prev) == prev

\* write(): next: prev + 1, in a build without overflow checks
SeqWriteNext(prev) == (prev + 1) % (SeqVersionMax + 1)

\* read(): one iteration of the loop, version.swap(LOCKED).  Called by the
\* user (the guard is returned) or by load() (the guard is a temporary).
SeqReadSwap(t) ==
    /\ seq_pc[t] = "read"
    /\ seq_version' = SEQ_LOCKED
    /\ IF SeqAcquired(seq_version)
       THEN /\ seq_guards' = seq_guards \cup
                   {[owner |-> t, kind |-> "read", v |-> seq_version]}
            /\ seq_bk' = [seq_bk EXCEPT ![t] = BackoffNew]
            /\ IF seq_op[t] = "load"
               THEN /\ seq_pc' = [seq_pc EXCEPT ![t] = "ld_copy"]
                    /\ UNCHANGED seq_op
               ELSE /\ seq_pc' = [seq_pc EXCEPT ![t] = "idle"]
                    /\ seq_op' = [seq_op EXCEPT ![t] = "none"]
       ELSE /\ seq_bk' = [seq_bk EXCEPT ![t] =
                             BackoffSnooze(DEFAULT_SPIN_LIMIT, @)]
            /\ UNCHANGED <<seq_guards, seq_pc, seq_op>>
    /\ UNCHANGED <<seq_data, seq_loc, seq_stored, seq_wstarted, seq_wreleased>>

\* write(): one iteration of the loop, version.swap(LOCKED).  Called by the
\* user (the guard is returned) or by store() (the guard is a temporary).
SeqWriteSwap(t) ==
    /\ seq_pc[t] = "write"
    /\ seq_version' = SEQ_LOCKED
    /\ IF SeqAcquired(seq_version)
       THEN /\ seq_guards' = seq_guards \cup
                   {[owner |-> t, kind |-> "write",
                     v |-> SeqWriteNext(seq_version)]}
            /\ seq_bk' = [seq_bk EXCEPT ![t] = BackoffNew]
            /\ IF seq_op[t] = "store"
               THEN /\ seq_pc' = [seq_pc EXCEPT ![t] = "st_w1"]
                    /\ UNCHANGED seq_op
               ELSE IF seq_op[t] \in {"replace", "take"}
               THEN /\ seq_pc' = [seq_pc EXCEPT ![t] = "rp_read"]
                    /\ UNCHANGED seq_op
               ELSE /\ seq_pc' = [seq_pc EXCEPT ![t] = "idle"]
                    /\ seq_op' = [seq_op EXCEPT ![t] = "none"]
       ELSE /\ seq_bk' = [seq_bk EXCEPT ![t] =
                             BackoffSnooze(DEFAULT_SPIN_LIMIT, @)]
            /\ UNCHANGED <<seq_guards, seq_pc, seq_op>>
    /\ UNCHANGED <<seq_data, seq_loc, seq_stored, seq_wstarted, seq_wreleased>>

\* write(): version.swap(LOCKED) returned usize::MAX, in a build with
\* overflow checks: next: prev + 1 panics before the guard exists, the version
\* stays LOCKED and the call unwinds.
SeqWritePanic(t) ==
    /\ seq_pc[t] = "write"
    /\ seq_version = SeqVersionMax
    /\ seq_version' = SEQ_LOCKED
    /\ seq_pc' = [seq_pc EXCEPT ![t] = "idle"]
    /\ seq_op' = [seq_op EXCEPT ![t] = "none"]
    /\ seq_bk' = [seq_bk EXCEPT ![t] = BackoffNew]
    /\ seq_loc' = [seq_loc EXCEPT ![t] = SeqNoLocals]
    /\ UNCHANGED <<seq_data, seq_guards, seq_stored, seq_wstarted,
                   seq_wreleased>>

\* A read guard whose drop advances the generation, as the write guard's does.
SeqReadGuardAdvances(g) ==
    /\ seq_version' = g.v + 1
    /\ seq_guards' = seq_guards \ {g}
    /\ UNCHANGED <<seq_data, seq_stored, seq_wstarted, seq_wreleased>>

\* SpinSeqLockReadGuardEx::drop: version.store(prev)
SeqReadGuardRelease(g) ==
    /\ seq_version' = g.v
    /\ seq_guards' = seq_guards \ {g}
    /\ UNCHANGED <<seq_data, seq_stored, seq_wstarted, seq_wreleased>>

\* SpinSeqLockWriteGuardEx::drop: version.store(next)
SeqWriteGuardRelease(g) ==
    /\ seq_version' = g.v
    /\ seq_guards' = seq_guards \ {g}
    /\ seq_stored' = seq_stored \cup {seq_data}
    /\ seq_wreleased' = seq_wreleased + 1
    /\ UNCHANGED <<seq_data, seq_wstarted>>

\* The user drops a read guard obtained from read()
SeqReadGuardDrop(t) ==
    /\ seq_pc[t] = "idle"
    /\ \E g \in SeqGuardsOf(t, "read") : SeqReadGuardRelease(g)
    /\ UNCHANGED <<seq_op, seq_pc, seq_bk, seq_loc>>

\* The user drops a write guard obtained from write()
SeqWriteGuardDrop(t) ==
    /\ seq_pc[t] = "idle"
    /\ \E g \in SeqGuardsOf(t, "write") : SeqWriteGuardRelease(g)
    /\ UNCHANGED <<seq_op, seq_pc, seq_bk, seq_loc>>

\* DerefMut of a write guard: the user writes one word of the payload
SeqGuardWrite(t, i, w) ==
    /\ seq_pc[t] = "idle"
    /\ SeqGuardsOf(t, "write") # {}
    /\ seq_data[i] # w
    /\ seq_data' = [seq_data EXCEPT ![i] = w]
    /\ UNCHANGED <<seq_version, seq_guards, seq_op, seq_pc, seq_bk, seq_loc,
                   seq_stored, seq_wstarted, seq_wreleased>>

\* load(): entry into optimistic_read()
SeqLoadCall(t) ==
    /\ seq_pc[t] = "idle"
    /\ seq_op' = [seq_op EXCEPT ![t] = "load"]
    /\ seq_pc' = [seq_pc EXCEPT ![t] = "ld_v1"]
    /\ UNCHANGED <<seq_version, seq_data, seq_guards, seq_bk, seq_loc,
                   seq_stored, seq_wstarted, seq_wreleased>>

\* optimistic_read(): let version = self.version.load(Acquire).  LOCKED:
\* None, and load() goes on to read().
SeqLoadV1(t) ==
    /\ seq_pc[t] = "ld_v1"
    /\ seq_loc' = [seq_loc EXCEPT ![t].version = seq_version,
                                  ![t].tries = @ + 1]
    /\ IF seq_version # SEQ_LOCKED
       THEN /\ seq_pc' = [seq_pc EXCEPT ![t] = "ld_d1"]
            /\ UNCHANGED seq_bk
       ELSE /\ seq_pc' = [seq_pc EXCEPT ![t] = "read"]
            /\ seq_bk' = [seq_bk EXCEPT ![t] = BackoffNew]
    /\ UNCHANGED <<seq_version, seq_data, seq_guards, seq_op, seq_stored,
                   seq_wstarted, seq_wreleased>>

\* optimistic_read(): ptr::read_volatile of the payload, one word per step;
\* a word read while a writer is writing is the old or the new word.
SeqLoadData(t) ==
    /\ seq_pc[t] \in {"ld_d1", "ld_d2"}
    /\ LET i == IF seq_pc[t] = "ld_d1" THEN 1 ELSE 2
       IN  /\ seq_loc' = [seq_loc EXCEPT ![t].d[i] = seq_data[i]]
           /\ seq_pc' = [seq_pc EXCEPT ![t] = IF i = 1 THEN "ld_d2" ELSE "ld_v2"]
    /\ UNCHANGED <<seq_version, seq_data, seq_guards, seq_op, seq_bk,
                   seq_stored, seq_wstarted, seq_wreleased>>

\* An optimistic read that trusts the copy without the second version read.
SeqUnvalidated(first, second) == TRUE

\* optimistic_read(): if self.version.load(Relaxed) == version
SeqValidated(first, second) == second = first

\* optimistic_read(): the second version read.  Unchanged: Some(data), load()
\* returns it.  Changed: None, and load() goes on to read().
SeqLoadV2(t) ==
    /\ seq_pc[t] = "ld_v2"
    /\ IF SeqValidated(seq_loc[t].version, seq_version)
       THEN /\ seq_pc' = [seq_pc EXCEPT ![t] = "ld_ret"]
            /\ UNCHANGED seq_bk
       ELSE /\ seq_pc' = [seq_pc EXCEPT ![t] = "read"]
            /\ seq_bk' = [seq_bk EXCEPT ![t] = BackoffNew]
    /\ UNCHANGED <<seq_version, seq_data, seq_guards, seq_op, seq_loc,
                   seq_stored, seq_wstarted, seq_wreleased>>

\* load(): *self.read(), the payload copied out through the read guard
SeqLoadCopy(t) ==
    /\ seq_pc[t] = "ld_copy"
    /\ seq_loc' = [seq_loc EXCEPT ![t].d = seq_data]
    /\ seq_pc' = [seq_pc EXCEPT ![t] = "ld_drop"]
    /\ UNCHANGED <<seq_version, seq_data, seq_guards, seq_op, seq_bk,
                   seq_stored, seq_wstarted, seq_wreleased>>

\* load(): the temporary read guard is dropped
SeqLoadDrop(t) ==
    /\ seq_pc[t] = "ld_drop"
    /\ \E g \in SeqGuardsOf(t, "read") : SeqReadGuardRelease(g)
    /\ seq_pc' = [seq_pc EXCEPT ![t] = "ld_ret"]
    /\ UNCHANGED <<seq_op, seq_bk, seq_loc>>

\* load() returns seq_loc[t].d to its caller
SeqLoadReturn(t) ==
    /\ seq_pc[t] = "ld_ret"
    /\ seq_pc' = [seq_pc EXCEPT ![t] = "idle"]
    /\ seq_op' = [seq_op EXCEPT ![t] = "none"]
    /\ seq_loc' = [seq_loc EXCEPT ![t] = SeqNoLocals]
    /\ UNCHANGED <<seq_version, seq_data, seq_guards, seq_bk, seq_stored,
                   seq_wstarted, seq_wreleased>>

\* store(v): entry into write()
SeqStoreCall(t, v) ==
    /\ seq_pc[t] = "idle"
    /\ seq_op' = [seq_op EXCEPT ![t] = "store"]
    /\ seq_pc' = [seq_pc EXCEPT ![t] = "write"]
    /\ seq_bk' = [seq_bk EXCEPT ![t] = BackoffNew]
    /\ seq_loc' = [seq_loc EXCEPT ![t].arg = v]
    /\ seq_wstarted' = seq_wstarted + 1
    /\ UNCHANGED <<seq_version, seq_data, seq_guards, seq_stored,
                   seq_wreleased>>

\* store(v): *guard = v, one word per step
SeqStoreData(t) ==
    /\ seq_pc[t] \in {"st_w1", "st_w2"}
    /\ LET i == IF seq_pc[t] = "st_w1" THEN 1 ELSE 2
       IN  /\ seq_data' = [seq_data EXCEPT ![i] = seq_loc[t].arg[i]]
           /\ seq_pc' = [seq_pc EXCEPT ![t] = IF i = 1 THEN "st_w2" ELSE "st_drop"]
    /\ UNCHANGED <<seq_version, seq_guards, seq_op, seq_bk, seq_loc,
                   seq_stored, seq_wstarted, seq_wreleased>>

\* store(v): the temporary write guard is dropped and store() returns;
\* replace(v), take(): the temporary write guard is dropped
SeqStoreDrop(t) ==
    /\ seq_pc[t] = "st_drop"
    /\ \E g \in SeqGuardsOf(t, "write") : SeqWriteGuardRelease(g)
    /\ IF seq_op[t] = "store"
       THEN /\ seq_pc' = [seq_pc EXCEPT ![t] = "idle"]
            /\ seq_op' = [seq_op EXCEPT ![t] = "none"]
            /\ seq_loc' = [seq_loc EXCEPT ![t] = SeqNoLocals]
       ELSE /\ seq_pc' = [seq_pc EXCEPT ![t] = "rp_ret"]
            /\ UNCHANGED <<seq_op, seq_loc>>
    /\ UNCHANGED seq_bk

\* T::default(): the all-zero payload
SeqDefault == <<0, 0>>

\* replace(other): entry into write()
SeqReplaceCall(t, v) ==
    /\ seq_pc[t] = "idle"
    /\ seq_op' = [seq_op EXCEPT ![t] = "replace"]
    /\ seq_pc' = [seq_pc EXCEPT ![t] = "write"]
    /\ seq_bk' = [seq_bk EXCEPT ![t] = BackoffNew]
    /\ seq_loc' = [seq_loc EXCEPT ![t].arg = v]
    /\ seq_wstarted' = seq_wstarted + 1
    /\ UNCHANGED <<seq_version, seq_data, seq_guards, seq_stored,
                   seq_wreleased>>

\* take(): entry into write(); mem::take is mem::replace with T::default()
SeqTakeCall(t) ==
    /\ seq_pc[t] = "idle"
    /\ seq_op' = [seq_op EXCEPT ![t] = "take"]
    /\ seq_pc' = [seq_pc EXCEPT ![t] = "write"]
    /\ seq_bk' = [seq_bk EXCEPT ![t] = BackoffNew]
    /\ seq_loc' = [seq_loc EXCEPT ![t].arg = SeqDefault]
    /\ seq_wstarted' = seq_wstarted + 1
    /\ UNCHANGED <<seq_version, seq_data, seq_guards, seq_stored,
                   seq_wreleased>>

\* replace(), take(): mem::replace reads the old payload through the guard;
\* the new one is then written as store() writes it
SeqReplaceRead(t) ==
    /\ seq_pc[t] = "rp_read"
    /\ seq_loc' = [seq_loc EXCEPT ![t].d = seq_data]
    /\ seq_pc' = [seq_pc EXCEPT ![t] = "st_w1"]
    /\ UNCHANGED <<seq_version, seq_data, seq_guards, seq_op, seq_bk,
                   seq_stored, seq_wstarted, seq_wreleased>>

\* replace(), take() return seq_loc[t].d to their caller
SeqReplaceReturn(t) ==
    /\ seq_pc[t] = "rp_ret"
    /\ seq_pc' = [seq_pc EXCEPT ![t] = "idle"]
    /\ seq_op' = [seq_op EXCEPT ![t] = "none"]
    /\ seq_loc' = [seq_loc EXCEPT ![t] = SeqNoLocals]
    /\ UNCHANGED <<seq_version, seq_data, seq_guards, seq_bk, seq_stored,
                   seq_wstarted, seq_wreleased>>

\* The write guards released before the first state of the overflow runs
SeqWrapWrites == SeqVersionMax - 2

\* The cell after SeqWrapWrites write guards were acquired and released, the
\* last of them leaving the all-zero payload: its version is usize::MAX - 1
SeqWrapInit ==
    /\ seq_version = SEQ_UNLOCKED_LOCK + SeqWrapWrites
    /\ seq_data = <<0, 0>>
    /\ seq_guards = {}
    /\ seq_op = [t \in Threads |-> "none"]
    /\ seq_pc = [t \in Threads |-> "idle"]
    /\ seq_bk = [t \in Threads |-> BackoffNew]
    /\ seq_loc = [t \in Threads |-> SeqNoLocals]
    /\ seq_stored = {<<0, 0>>}
    /\ seq_wstarted = SeqWrapWrites
    /\ seq_wreleased = SeqWrapWrites

\* ---------------------------------------- SpinSeqLockAtomicPtr (pointer-resident)
\* A bound of the model: pointers are the abstract addresses 0 .. MaxPtr; the
\* cell is created holding address 0.
MaxPtr == 1
Ptrs == 0 .. MaxPtr

\* atomic_spin_seqlock.rs: const INIT_UNLOCKED: usize = 1
INIT_UNLOCKED == 1
\* atomic_spin_seqlock.rs: const LOCKED: usize = 0
LOCKED == 0

VARIABLES
    ptr_version,    \* SpinSeqLockAtomicPtrEx.version : AtomicUsize
    ptr_ptr,        \* SpinSeqLockAtomicPtrEx.ptr : AtomicPtr<T>
    ptr_stack,      \* per thread: the call stack, the public operation at the bottom
    ptr_ret,        \* per thread: the value the last return delivered
    ptr_held        \* per thread: the guards the caller holds

ptrvars == <<ptr_version, ptr_ptr, ptr_stack, ptr_ret, ptr_held>>

\* A guard: kind "read" (v is prev) or "write" (v is next); snap is ptr_snapshoot
PtrNoGuard == [kind |-> "none", snap |-> 0, v |-> 0]

\* A returned value: tag "none" (None), "some" (Some(ptr)), "ptr" (*mut T),
\* "guard" (Some(guard) or a guard), "unit"
PtrRet(tag, p, g) == [tag |-> tag, ptr |-> p, g |-> g]
PtrNoRet == PtrRet("unit", 0, PtrNoGuard)

\* A stack frame: the function, the position in it, and its locals
PtrFrame(fn, pc, arg) ==
    [fn |-> fn, pc |-> pc, i |-> 0, version |-> 0, data |-> 0, prev |-> 0,
     bk |-> BackoffNew, arg |-> arg, g |-> PtrNoGuard]

\* SpinSeqLockAtomicPtrEx::new(val), val the address 0
PtrInit ==
    /\ ptr_version = INIT_UNLOCKED
    /\ ptr_ptr = 0
    /\ ptr_stack = [t \in Threads |-> <<>>]
    /\ ptr_ret = [t \in Threads |-> PtrNoRet]
    /\ ptr_held = [t \in Threads |-> {}]

PtrTop(st) == st[Len(st)]
PtrPop(st) == SubSeq(st, 1, Len(st) - 1)
PtrSetTop(st, f) == [st EXCEPT ![Len(st)] = f]

\* The frames a call pushes, the callee's first call included:
\* load() begins with optimistic_read(), read() with try_read(), write() with
\* try_write(), store()/replace() with write().
PtrCallLoad == <<PtrFrame("load", "after_opt", 0),
                 PtrFrame("optimistic_read", "v1", 0)>>
PtrCallRead == <<PtrFrame("read", "after_try", 0),
                 PtrFrame("try_read", "swap", 0)>>
PtrCallWrite == <<PtrFrame("write", "after_try", 0),
                  PtrFrame("try_write", "swap", 0)>>

\* The state a step of thread t leaves: the shared words, t's stack and the
\* value returned to t's caller
PtrState(ver, p, st, ret) == [version |-> ver, ptr |-> p, stack |-> st, ret |-> ret]

\* return: the frame is popped and the value delivered
PtrReturn(ver, p, st, ret) == PtrState(ver, p, PtrPop(st), ret)

\* A try_read() without the test of prev: it goes on to build a guard
\* whatever the swap returned.
PtrTryReadUnchecked(t, st, f, ret) ==
    IF f.pc = "swap"
    THEN PtrState(LOCKED, ptr_ptr,
                  PtrSetTop(st, [f EXCEPT !.pc = "snap", !.prev = ptr_version])
                      \o PtrCallLoad, ret)
    ELSE PtrReturn(ptr_version, ptr_ptr, st,
                   PtrRet("guard", 0,
                          [kind |-> "read", snap |-> ret.ptr, v |-> f.prev]))

\* try_read(): the guard's ptr_snapshoot is self.load(), the cell's own
\* optimistic load with its fallback to read()
PtrTryRead(t, st, f, ret) ==
    IF f.pc = "swap"
    THEN \* let prev = self.version.swap(LOCKED, Acquire)
         IF ptr_version # LOCKED
         THEN PtrState(LOCKED, ptr_ptr,
                       PtrSetTop(st, [f EXCEPT !.pc = "snap",
                                               !.prev = ptr_version])
                           \o PtrCallLoad, ret)
         ELSE PtrReturn(LOCKED, ptr_ptr, st, PtrRet("none", 0, PtrNoGuard))
    ELSE \* "snap": self.load() returned; Some(guard)
         PtrReturn(ptr_version, ptr_ptr, st,
                   PtrRet("guard", 0,
                          [kind |-> "read", snap |-> ret.ptr, v |-> f.prev]))

\* try_write(): as try_read(), with next: prev + 1
PtrTryWrite(t, st, f, ret) ==
    IF f.pc = "swap"
    THEN IF ptr_version # LOCKED
         THEN PtrState(LOCKED, ptr_ptr,
                       PtrSetTop(st, [f EXCEPT !.pc = "snap",
                                               !.prev = ptr_version])
                           \o PtrCallLoad, ret)
         ELSE PtrReturn(LOCKED, ptr_ptr, st, PtrRet("none", 0, PtrNoGuard))
    ELSE PtrReturn(ptr_version, ptr_ptr, st,
                   PtrRet("guard", 0,
                          [kind |-> "write", snap |-> ret.ptr, v |-> f.prev + 1]))

\* read(): loop { let Some(guard) = self.try_read() else { snooze; continue };
\* return guard }
PtrRead(t, st, f, ret) ==
    IF ret.tag = "guard"
    THEN PtrReturn(ptr_version, ptr_ptr, st, ret)
    ELSE PtrState(ptr_version, ptr_ptr,
                  Append(PtrSetTop(st, [f EXCEPT !.bk =
                                            BackoffSnooze(DEFAULT_SPIN_LIMIT, @)]),
                         PtrFrame("try_read", "swap", 0)),
                  ret)

\* write(): the same loop over try_write()
PtrWrite(t, st, f, ret) ==
    IF ret.tag = "guard"
    THEN PtrReturn(ptr_version, ptr_ptr, st, ret)
    ELSE PtrState(ptr_version, ptr_ptr,
                  Append(PtrSetTop(st, [f EXCEPT !.bk =
                                            BackoffSnooze(DEFAULT_SPIN_LIMIT, @)]),
                         PtrFrame("try_write", "swap", 0)),
                  ret)

\* optimistic_read(): the end of one iteration of for _ in 0..DEFAULT_SPIN_LIMIT
PtrOptNext(st, f, ret) ==
    IF f.i + 1 < DEFAULT_SPIN_LIMIT
    THEN PtrState(ptr_version, ptr_ptr,
                  PtrSetTop(st, [f EXCEPT !.pc = "v1", !.i = f.i + 1]), ret)
    ELSE PtrReturn(ptr_version, ptr_ptr, st, PtrRet("none", 0, PtrNoGuard))

\* optimistic_read(): version load, pointer load, version reload
PtrOptimisticRead(t, st, f, ret) ==
    CASE f.pc = "v1" ->
           IF ptr_version # LOCKED
           THEN PtrState(ptr_version, ptr_ptr,
                         PtrSetTop(st, [f EXCEPT !.pc = "data",
                                                 !.version = ptr_version]), ret)
           ELSE PtrOptNext(st, f, ret)
      [] f.pc = "data" ->
           PtrState(ptr_version, ptr_ptr,
                    PtrSetTop(st, [f EXCEPT !.pc = "v2", !.data = ptr_ptr]), ret)
      [] OTHER ->
           IF ptr_version = f.version
           THEN PtrReturn(ptr_version, ptr_ptr, st, PtrRet("some", f.data, PtrNoGuard))
           ELSE PtrOptNext(st, f, ret)

\* load(): self.optimistic_read().unwrap_or_else(|| *self.read())
PtrLoad(t, st, f, ret) ==
    CASE f.pc = "after_opt" ->
           IF ret.tag = "some"
           THEN PtrReturn(ptr_version, ptr_ptr, st, PtrRet("ptr", ret.ptr, PtrNoGuard))
           ELSE PtrState(ptr_version, ptr_ptr,
                         PtrSetTop(st, [f EXCEPT !.pc = "after_read"])
                             \o PtrCallRead, ret)
      [] OTHER ->
           \* *guard is copied out and the temporary read guard dropped:
           \* version.store(prev)
           PtrReturn(ret.g.v, ptr_ptr, st, PtrRet("ptr", ret.g.snap, PtrNoGuard))

\* store(v): *self.write() = v; replace(v): mem::replace(&mut *self.write(), v).
\* The write guard is a temporary: its ptr_snapshoot is set, then it is
\* dropped: ptr.store(ptr_snapshoot), then version.store(next).
PtrStoreReplace(t, st, f, ret) ==
    CASE f.pc = "after_write" ->
           PtrState(ptr_version, f.arg,
                    PtrSetTop(st, [f EXCEPT !.pc = "drop_ver",
                                            !.data = ret.g.snap,
                                            !.g = [ret.g EXCEPT !.snap = f.arg]]),
                    ret)
      [] OTHER ->
           PtrReturn(f.g.v, ptr_ptr, st,
                     IF f.fn = "replace" THEN PtrRet("ptr", f.data, PtrNoGuard)
                     ELSE PtrNoRet)

\* Drop of a guard the caller holds.  Read guard: version.store(prev).  Write
\* guard: ptr.store(ptr_snapshoot), then version.store(next).
PtrDrop(t, st, f, ret) ==
    CASE f.pc = "drop_ptr" ->
           PtrState(ptr_version, f.g.snap,
                    PtrSetTop(st, [f EXCEPT !.pc = "drop_ver"]), ret)
      [] OTHER -> PtrReturn(f.g.v, ptr_ptr, st, PtrNoRet)

\* One step of the function on top of thread t's stack
PtrExec(t) ==
    LET st == ptr_stack[t]
        f == PtrTop(st)
        ret == ptr_ret[t]
    IN  CASE f.fn = "try_read" -> PtrTryRead(t, st, f, ret)
          [] f.fn = "try_write" -> PtrTryWrite(t, st, f, ret)
          [] f.fn = "read" -> PtrRead(t, st, f, ret)
          [] f.fn = "write" -> PtrWrite(t, st, f, ret)
          [] f.fn = "optimistic_read" -> PtrOptimisticRead(t, st, f, ret)
          [] f.fn = "load" -> PtrLoad(t, st, f, ret)
          [] f.fn \in {"store", "replace"} -> PtrStoreReplace(t, st, f, ret)
          [] OTHER -> PtrDrop(t, st, f, ret)

\* A thread inside a call takes its next step.  When the public operation
\* returns a guard, the caller holds it.
PtrStep(t) ==
    /\ ptr_stack[t] # <<>>
    /\ LET r == PtrExec(t)
       IN  /\ ptr_version' = r.version
           /\ ptr_ptr' = r.ptr
           /\ ptr_stack' = [ptr_stack EXCEPT ![t] = r.stack]
           /\ ptr_ret' = [ptr_ret EXCEPT ![t] = r.ret]
           /\ ptr_held' = [ptr_held EXCEPT ![t] =
                 IF r.stack = <<>> /\ r.ret.tag = "guard"
                 THEN @ \cup {r.ret.g} ELSE @]

\* The public operations a thread outside any call may start
PtrOps(t) ==
    {<<op, 0>> : op \in {"try_read", "try_write", "read", "write", "load"}}
    \cup {<<op, p>> : op \in {"store", "replace"}, p \in Ptrs}

\* The frames the public operation op(arg) starts with
PtrEnter(op, arg) ==
    CASE op = "read" -> PtrCallRead
      [] op = "write" -> PtrCallWrite
      [] op = "load" -> PtrCallLoad
      [] op \in {"store", "replace"} ->
           <<PtrFrame(op, "after_write", arg)>> \o PtrCallWrite
      [] OTHER -> <<PtrFrame(op, "swap", 0)>>

\* A thread outside any call starts a public operation, drops a guard it
\* holds, or sets the ptr_snapshoot of a write guard it holds (DerefMut)
PtrCall(t) ==
    /\ ptr_stack[t] = <<>>
    /\ \/ /\ \E c \in PtrOps(t) :
               ptr_stack' = [ptr_stack EXCEPT ![t] = PtrEnter(c[1], c[2])]
          /\ ptr_ret' = [ptr_ret EXCEPT ![t] = PtrNoRet]
          /\ UNCHANGED ptr_held
       \/ /\ \E g \in ptr_held[t] :
               \/ /\ ptr_held' = [ptr_held EXCEPT ![t] = @ \ {g}]
                  /\ ptr_stack' = [ptr_stack EXCEPT ![t] =
                        <<[PtrFrame("drop", IF g.kind = "write" THEN "drop_ptr"
                                            ELSE "drop_ver", 0) EXCEPT !.g = g]>>]
               \/ /\ g.kind = "write"
                  /\ \E q \in Ptrs \ {g.snap} :
                       ptr_held' = [ptr_held EXCEPT ![t] =
                                       (@ \ {g}) \cup {[g EXCEPT !.snap = q]}]
                  /\ UNCHANGED ptr_stack
          /\ UNCHANGED ptr_ret
    /\ UNCHANGED <<ptr_version, ptr_ptr>>

\* ------------------------------------------- writer / readers scenario
\* One writer stores the sequence numbers 1 .. WrWrites, in order, into a
\* value-resident SpinSeqLock created holding 0; WrReaders readers call load()
\* again and again.  The payload carries the number in both of its words.
\* Bounds of the model: the number of readers and of stores.
WrReaders == 2
WrWrites == 2

WrWriter == 0
WrReaderSet == 1 .. WrReaders
WrThreads == {WrWriter} \cup WrReaderSet

\* The payload holding sequence number k
WrValue(k) == <<k, k>>

VARIABLES
    wr_next,        \* the sequence number the writer stores next
    wr_last         \* per reader: the payload its last load() returned

wrvars == <<wr_next, wr_last>>

\* No scenario: the variables stay as they are
WrNone ==
    /\ wr_next = 1
    /\ wr_last = [t \in WrReaderSet |-> WrValue(0)]

\* The writer calls store(k) for the next sequence number k
WrStoreCall ==
    /\ wr_next <= WrWrites
    /\ SeqStoreCall(WrWriter, WrValue(wr_next))
    /\ wr_next' = wr_next + 1
    /\ UNCHANGED wr_last

\* A reader's load() returns: the reader keeps the payload it was given
WrLoadReturn(t) ==
    /\ t \in WrReaderSet
    /\ SeqLoadReturn(t)
    /\ wr_last' = [wr_last EXCEPT ![t] = seq_loc[t].d]
    /\ UNCHANGED wr_next

\* ------------------------------------------------------------------ AtomicT
\* atomic_t.rs (strict) and atomic_t_mu.rs (uninit-tolerant): a value of T kept
\* as its bit image in a native atomic integer.  A bound of the model: T has
\* two fields of AtFieldBits bits each and the integer is 2 * AtFieldBits
\* bits wide; a padded T has its first field only, the rest of its size being
\* padding.  The first field lies at the lower address: the low bits.
AtFieldBits == 1

AtBase == 2 ^ AtFieldBits

\* The values of T: <<first field, second field>>, the second 0 when padded
AtValues(padded) ==
    {<<a, b>> : a \in 0 .. (AtBase - 1),
                b \in IF padded THEN {0} ELSE 0 .. (AtBase - 1)}

\* transmute_to_u: mem::transmute_copy(&value), the bit images value can
\* have: the bits of padding are whatever the copied value carried
TransmuteToU(padded, v) ==
    {v[1] + AtBase * hi : hi \in IF padded THEN 0 .. (AtBase - 1) ELSE {v[2]}}

\* A decoding that takes the fields in the opposite order.
TransmuteToTSwapped(padded, u) ==
    <<u \div AtBase, IF padded THEN 0 ELSE u % AtBase>>

\* transmute_to_t: mem::transmute_copy(&value) back into T; padding carries
\* no value
TransmuteToT(padded, u) ==
    <<u % AtBase, IF padded THEN 0 ELSE u \div AtBase>>

VARIABLES
    at_variant,     \* "strict" (atomic_t), "uninit" (atomic_t_mu); "none": no cell
    at_padded,      \* whether T has padding bytes
    at_data,        \* AtomicT.data : the native atomic integer
    at_alive,       \* FALSE once into_inner(self) has consumed the cell
    at_written,     \* history: the value of T last written into the cell
    at_last         \* the last operation completed: who, what, arguments, result

atvars == <<at_variant, at_padded, at_data, at_alive, at_written, at_last>>

AtNoOp == [t |-> 0, op |-> "new", cur |-> <<0, 0>>, new |-> <<0, 0>>,
           ok |-> TRUE, val |-> <<0, 0>>, tick |-> 0]

\* No AtomicT in use
AtNone ==
    /\ at_variant = "none"
    /\ at_padded = FALSE
    /\ at_data = 0
    /\ at_alive = FALSE
    /\ at_written = <<0, 0>>
    /\ at_last = AtNoOp

\* new(value): the cell holds a bit image of value
AtNew ==
    /\ at_variant \in {"strict", "uninit"}
    /\ at_padded \in BOOLEAN
    \* strict new() is unsafe: the caller guarantees T has no padding bytes
    /\ at_variant = "strict" => ~at_padded
    /\ \E v \in AtValues(at_padded) :
          /\ at_data \in TransmuteToU(at_padded, v)
          /\ at_written = v
          /\ at_last = [AtNoOp EXCEPT !.new = v]
    /\ at_alive = TRUE

\* The record of an operation just completed
AtDone(t, op, cur, new, ok, val) ==
    [t |-> t, op |-> op, cur |-> cur, new |-> new, ok |-> ok, val |-> val,
     tick |-> 1 - at_last.tick]

\* load(ordering): transmute_to_t(self.data.load(ordering))
AtLoad(t) ==
    /\ at_alive
    /\ at_last' = AtDone(t, "load", <<0, 0>>, <<0, 0>>, TRUE,
                         TransmuteToT(at_padded, at_data))
    /\ UNCHANGED <<at_variant, at_padded, at_data, at_alive, at_written>>

\* store(value, ordering): self.data.store(transmute_to_u(value), ordering)
AtStore(t, v) ==
    /\ at_alive
    /\ at_data' \in TransmuteToU(at_padded, v)
    /\ at_written' = v
    /\ at_last' = AtDone(t, "store", <<0, 0>>, v, TRUE, <<0, 0>>)
    /\ UNCHANGED <<at_variant, at_padded, at_alive>>

\* into_inner(self): transmute_to_t(self.data.into_inner()); the cell is gone
AtIntoInner(t) ==
    /\ at_alive
    /\ at_alive' = FALSE
    /\ at_last' = AtDone(t, "into_inner", <<0, 0>>, <<0, 0>>, TRUE,
                         TransmuteToT(at_padded, at_data))
    /\ UNCHANGED <<at_variant, at_padded, at_data, at_written>>

\* A compare_exchange that stores new whatever the cell holds.
AtCompareExchangeBlind(t, cur, new) ==
    /\ at_alive
    /\ \E un \in TransmuteToU(at_padded, new) :
          /\ at_data' = un
          /\ at_written' = new
          /\ at_last' = AtDone(t, "compare_exchange", cur, new, TRUE,
                               TransmuteToT(at_padded, at_data))
    /\ UNCHANGED <<at_variant, at_padded, at_alive>>

\* compare_exchange(current, new, ..): the native compare_exchange on the bit
\* images transmute_to_u(current) and transmute_to_u(new), Ok and Err both
\* mapped through transmute_to_t
AtCompareExchange(t, cur, new) ==
    /\ at_alive
    /\ \E uc \in TransmuteToU(at_padded, cur), un \in TransmuteToU(at_padded, new) :
          IF at_data = uc
          THEN /\ at_data' = un
               /\ at_written' = new
               /\ at_last' = AtDone(t, "compare_exchange", cur, new, TRUE,
                                    TransmuteToT(at_padded, at_data))
          ELSE /\ at_last' = AtDone(t, "compare_exchange", cur, new, FALSE,
                                    TransmuteToT(at_padded, at_data))
               /\ UNCHANGED <<at_data, at_written>>
    /\ UNCHANGED <<at_variant, at_padded, at_alive>>

\* ------------------------------------------------ AtomicT::fetch_update
\* fetch_update(set_order, fetch_order, f) hands the closure
\* |u| f(transmute_to_t(u)).map(transmute_to_u) to the native fetch_update,
\* which loads the integer and then loops: the closure on the integer last
\* seen, None ends the call with Err, Some(next) goes to compare_exchange_weak,
\* whose failure hands back the integer now in the cell.  The load and each
\* compare_exchange_weak are one step each.
\* A bound of the model: the calls started with each closure.
FuCalls == 2

\* The closures of the model: "add1" returns Some(v + 1), wrapping, for T read
\* as an unsigned integer; "none" returns None
FuClosures == {"add1", "none"}

\* T as an unsigned integer, and back
AtNum(v) == v[1] + AtBase * v[2]
AtOfNum(n) == <<n % AtBase, n \div AtBase>>

\* The number of values of T
AtSpan(padded) == IF padded THEN AtBase ELSE AtBase * AtBase

\* f(value): the empty set for None, {r} for Some(r)
FuApply(padded, f, v) ==
    IF f = "none" THEN {}
    ELSE {AtOfNum((AtNum(v) + 1) % AtSpan(padded))}

VARIABLES
    fu_pc,          \* per thread: "idle", "load", "cas"
    fu_f,           \* per thread: the closure of the call in progress
    fu_prev,        \* per thread: prev, the integer the call saw last
    fu_calls,       \* history: per closure, the calls started
    fu_init,        \* history: the value the cell was constructed with
    fu_added        \* history: the calls with "add1" that returned Ok

fuvars == <<fu_pc, fu_f, fu_prev, fu_calls, fu_init, fu_added>>

FuInit ==
    /\ fu_pc = [t \in Threads |-> "idle"]
    /\ fu_f = [t \in Threads |-> "none"]
    /\ fu_prev = [t \in Threads |-> 0]
    /\ fu_calls = [f \in FuClosures |-> 0]
    /\ fu_init = at_written
    /\ fu_added = 0

\* fetch_update(.., f): entry
FuCall(t, f) ==
    /\ at_alive
    /\ fu_pc[t] = "idle"
    /\ fu_calls[f] < FuCalls
    /\ fu_pc' = [fu_pc EXCEPT ![t] = "load"]
    /\ fu_f' = [fu_f EXCEPT ![t] = f]
    /\ fu_calls' = [fu_calls EXCEPT ![f] = @ + 1]
    /\ UNCHANGED <<atvars, fu_prev, fu_init, fu_added>>

\* native fetch_update: let mut prev = self.load(fetch_order)
FuLoad(t) ==
    /\ fu_pc[t] = "load"
    /\ fu_prev' = [fu_prev EXCEPT ![t] = at_data]
    /\ fu_pc' = [fu_pc EXCEPT ![t] = "cas"]
    /\ UNCHANGED <<atvars, fu_f, fu_calls, fu_init, fu_added>>

\* A compare_exchange_weak that succeeds whatever the cell holds.
FuCasBlind(cur, prev) == TRUE

\* native compare_exchange_weak(prev, next): the cell still holds prev
FuCasOk(cur, prev) == cur = prev

\* One iteration of the native loop: the closure on transmute_to_t(prev).
\* None: Err(transmute_to_t(prev)).  Some(r): compare_exchange_weak(prev,
\* transmute_to_u(r)); success stores and returns Ok(transmute_to_t(prev)),
\* failure makes the integer in the cell the next prev.
FuCas(t) ==
    /\ fu_pc[t] = "cas"
    /\ LET seen == TransmuteToT(at_padded, fu_prev[t])
           r == FuApply(at_padded, fu_f[t], seen)
       IN  IF r = {}
           THEN /\ at_last' = AtDone(t, "fetch_update", <<0, 0>>, <<0, 0>>,
                                     FALSE, seen)
                /\ fu_pc' = [fu_pc EXCEPT ![t] = "idle"]
                /\ UNCHANGED <<at_data, at_written, fu_prev, fu_added>>
           ELSE \E new \in r : \E un \in TransmuteToU(at_padded, new) :
                  IF FuCasOk(at_data, fu_prev[t])
                  THEN /\ at_data' = un
                       /\ at_written' = new
                       /\ at_last' = AtDone(t, "fetch_update", <<0, 0>>, new,
                                            TRUE, seen)
                       /\ fu_pc' = [fu_pc EXCEPT ![t] = "idle"]
                       /\ fu_added' = fu_added + 1
                       /\ UNCHANGED fu_prev
                  ELSE /\ fu_prev' = [fu_prev EXCEPT ![t] = at_data]
                       /\ UNCHANGED <<at_data, at_written, at_last, fu_pc,
                                      fu_added>>
    /\ UNCHANGED <<at_variant, at_padded, at_alive, fu_f, fu_calls, fu_init>>

\* ------------------------------------------- replace() / take() scenario
\* Threads call replace(x) and take() on one value-resident SpinSeqLock and
\* keep what the calls return.
VARIABLES
    ex_in,          \* history: per payload, how often it was passed to a call
    ex_out          \* history: per payload, how often a call returned it

exvars == <<ex_in, ex_out>>

\* No call made yet
ExNone ==
    /\ ex_in = [p \in Payloads |-> 0]
    /\ ex_out = [p \in Payloads |-> 0]

\* A thread calls replace(v)
ExReplaceCall(t, v) ==
    /\ SeqReplaceCall(t, v)
    /\ ex_in' = [ex_in EXCEPT ![v] = @ + 1]
    /\ UNCHANGED ex_out

\* A thread calls take(), which writes T::default()
ExTakeCall(t) ==
    /\ SeqTakeCall(t)
    /\ ex_in' = [ex_in EXCEPT ![SeqDefault] = @ + 1]
    /\ UNCHANGED ex_out

\* replace() or take() returns: the caller keeps the payload it was given
ExReturn(t) ==
    /\ SeqReplaceReturn(t)
    /\ ex_out' = [ex_out EXCEPT ![seq_loc[t].d] = @ + 1]
    /\ UNCHANGED ex_in

\* ------------------------------------------------------ Backoff, in full
\* One Backoff<B> and the calls of snooze() on it.  The literal 1 of
\* `1 << n` in snooze() has no type of its own and is an i32; n is
\* -SPIN_LIMIT - 1 or self.step.
\* A bound of the model: B ranges over -BoMaxLimit .. BoMaxLimit.
BoMaxLimit == 33

\* The bits of an i32
BoIntBits == 32

\* i32::MIN
BoIntMin == (0 - 2 ^ (BoIntBits - 2)) * 2

\* 1 << n on an i32, n >= 0: the outcomes the build can produce.  n below the
\* width: the bit n, which is the sign bit for n = 31.  n from the width on:
\* a panic with overflow checks, the shift by n modulo the width without.
BoShl(n) ==
    IF n < BoIntBits - 1 THEN {[panic |-> FALSE, v |-> 2 ^ n]}
    ELSE IF n = BoIntBits - 1 THEN {[panic |-> FALSE, v |-> BoIntMin]}
    ELSE {[panic |-> TRUE, v |-> 0],
          [panic |-> FALSE,
           v |-> IF n % BoIntBits = BoIntBits - 1 THEN BoIntMin
                 ELSE 2 ^ (n % BoIntBits)]}

\* for _ in 0..end: the iterations
BoRange(end) == IF end > 0 THEN end ELSE 0

VARIABLES
    bo_limit,       \* SPIN_LIMIT, the const parameter B
    bo_std,         \* whether the crate is built with feature "std"
    bo_step,        \* Backoff.step
    bo_k,           \* history: the calls of snooze() since new()
    bo_hints,       \* history: the spin_loop hints of the last snooze()
    bo_yielded,     \* history: whether the last snooze() called yield_now
    bo_panicked     \* history: whether the last snooze() panicked

bovars == <<bo_limit, bo_std, bo_step, bo_k, bo_hints, bo_yielded, bo_panicked>>

\* Backoff::new(), nothing called on it yet
BoFresh ==
    /\ bo_step = BackoffNew
    /\ bo_k = 0
    /\ bo_hints = 0
    /\ bo_yielded = FALSE
    /\ bo_panicked = FALSE

\* No Backoff of its own in use
BoNone == bo_limit = DEFAULT_SPIN_LIMIT /\ bo_std = TRUE /\ BoFresh

\* A Backoff<B> for any B of the model, in either build
BoInit ==
    /\ bo_limit \in (0 - BoMaxLimit) .. BoMaxLimit
    /\ bo_std \in BOOLEAN
    /\ BoFresh

\* The spin loop of snooze() over 1 << n
BoSpin(n, step) ==
    {IF o.panic
     THEN [step |-> bo_step, hints |-> 0, yielded |-> FALSE, panicked |-> TRUE]
     ELSE [step |-> step, hints |-> BoRange(o.v), yielded |-> FALSE,
           panicked |-> FALSE] : o \in BoShl(n)}

\* snooze(): what one call does and the step it leaves
BoOutcomes ==
    IF bo_limit < 0
    THEN BoSpin(0 - bo_limit - 1, BackoffSnooze(bo_limit, bo_step))
    ELSE IF ~bo_std \/ bo_step <= bo_limit
    THEN BoSpin(bo_step, BackoffSnooze(bo_limit, bo_step))
    ELSE {[step |-> BackoffSnooze(bo_limit, bo_step), hints |-> 0,
           yielded |-> TRUE, panicked |-> FALSE]}

\* snooze()
BoSnooze ==
    /\ ~bo_panicked
    /\ bo_k < BoMaxLimit + 2
    /\ \E o \in BoOutcomes :
          /\ bo_step' = o.step
          /\ bo_hints' = o.hints
          /\ bo_yielded' = o.yielded
          /\ bo_panicked' = o.panicked
    /\ bo_k' = bo_k + 1
    /\ UNCHANGED <<bo_limit, bo_std>>

\* Backoff::new() again: the next retry loop
BoNew ==
    /\ bo_k > 0
    /\ bo_step' = BackoffNew
    /\ bo_k' = 0
    /\ bo_hints' = 0
    /\ bo_yielded' = FALSE
    /\ bo_panicked' = FALSE
    /\ UNCHANGED <<bo_limit, bo_std>>

\* ------------------------------------------------- shared counter scenario
\* N threads increment a counter protected by one lock: acquire the exclusive
\* guard, read the counter through it, write counter + 1 through it, drop it.
\* A bound of the model: the increments each thread performs.
CtrIncrements == 2

CtrKinds == {"mutex", "rwlock", "seqlock"}

VARIABLES
    ctr_kind,       \* which lock protects the counter; "none": no scenario
    ctr_value,      \* the protected payload: the counter
    ctr_pc,         \* per thread: "start", "locking", "read", "write", "drop"
    ctr_tmp,        \* per thread: the value read inside the critical section
    ctr_done        \* per thread: increments completed

ctrvars == <<ctr_kind, ctr_value, ctr_pc, ctr_tmp, ctr_done>>

vars == <<mutexvars, rwvars, seqvars, ptrvars, ctrvars, wrvars, atvars, fuvars, exvars, bovars>>

CtrInit ==
    /\ ctr_value = 0
    /\ ctr_pc = [t \in Threads |-> "start"]
    /\ ctr_tmp = [t \in Threads |-> 0]
    /\ ctr_done = [t \in Threads |-> 0]

\* lock() / write() is called
CtrLockCall(t) ==
    /\ ctr_pc[t] = "start"
    /\ ctr_done[t] < CtrIncrements
    /\ \/ ctr_kind = "mutex" /\ MutexLockCall(t) /\ UNCHANGED <<rwvars, seqvars>>
       \/ ctr_kind = "rwlock" /\ RwWriteCall(t) /\ UNCHANGED <<mutexvars, seqvars>>
       \/ ctr_kind = "seqlock" /\ SeqWriteCall(t) /\ UNCHANGED <<mutexvars, rwvars>>
    /\ ctr_pc' = [ctr_pc EXCEPT ![t] = "locking"]
    /\ UNCHANGED <<ptrvars, wrvars, atvars, fuvars, exvars, bovars, ctr_kind, ctr_value, ctr_tmp, ctr_done>>

\* one iteration of the acquisition loop; the call returns the guard or spins
CtrLockTry(t) ==
    /\ ctr_pc[t] = "locking"
    /\ \/ /\ ctr_kind = "mutex" /\ MutexLockCAS(t) /\ UNCHANGED <<rwvars, seqvars>>
          /\ ctr_pc' = [ctr_pc EXCEPT ![t] =
                IF mutex_pc'[t] = "idle" THEN "read" ELSE "locking"]
       \/ /\ ctr_kind = "rwlock" /\ RwWriteCAS(t) /\ UNCHANGED <<mutexvars, seqvars>>
          /\ ctr_pc' = [ctr_pc EXCEPT ![t] =
                IF rw_pc'[t] = "idle" THEN "read" ELSE "locking"]
       \/ /\ ctr_kind = "seqlock" /\ SeqWriteSwap(t) /\ UNCHANGED <<mutexvars, rwvars>>
          /\ ctr_pc' = [ctr_pc EXCEPT ![t] =
                IF seq_pc'[t] = "idle" THEN "read" ELSE "locking"]
    /\ UNCHANGED <<ptrvars, wrvars, atvars, fuvars, exvars, bovars, ctr_kind, ctr_value, ctr_tmp, ctr_done>>

\* let v = *guard
CtrRead(t) ==
    /\ ctr_pc[t] = "read"
    /\ ctr_tmp' = [ctr_tmp EXCEPT ![t] = ctr_value]
    /\ ctr_pc' = [ctr_pc EXCEPT ![t] = "write"]
    /\ UNCHANGED <<mutexvars, rwvars, seqvars, ptrvars, wrvars, atvars, fuvars, exvars, bovars, ctr_kind, ctr_value, ctr_done>>

\* *guard = v + 1
CtrWrite(t) ==
    /\ ctr_pc[t] = "write"
    /\ ctr_value' = ctr_tmp[t] + 1
    /\ ctr_pc' = [ctr_pc EXCEPT ![t] = "drop"]
    /\ UNCHANGED <<mutexvars, rwvars, seqvars, ptrvars, wrvars, atvars, fuvars, exvars, bovars, ctr_kind, ctr_tmp, ctr_done>>

\* the guard is dropped
CtrDrop(t) ==
    /\ ctr_pc[t] = "drop"
    /\ \/ ctr_kind = "mutex" /\ MutexGuardDrop(t) /\ UNCHANGED <<rwvars, seqvars>>
       \/ ctr_kind = "rwlock" /\ RwWriteGuardDrop(t) /\ UNCHANGED <<mutexvars, seqvars>>
       \/ ctr_kind = "seqlock" /\ SeqWriteGuardDrop(t) /\ UNCHANGED <<mutexvars, rwvars>>
    /\ ctr_pc' = [ctr_pc EXCEPT ![t] = "start"]
    /\ ctr_done' = [ctr_done EXCEPT ![t] = @ + 1]
    /\ UNCHANGED <<ptrvars, wrvars, atvars, fuvars, exvars, bovars, ctr_kind, ctr_value, ctr_tmp>>

\* ---------------------------------------------------------- specifications
\* Every cell freshly constructed, every thread outside any call
CellsInit == MutexInit /\ RwInit /\ SeqInit /\ PtrInit /\ CtrInit

Init ==
    CellsInit /\ ctr_kind = "none" /\ WrNone /\ AtNone /\ FuInit /\ ExNone /\ BoNone

\* Threads using one SpinMutex
MutexNext ==
    \E t \in Threads :
        \/ MutexLockCall(t) /\ UNCHANGED <<rwvars, seqvars, ptrvars, ctrvars, wrvars, atvars, fuvars, exvars, bovars>>
        \/ MutexLockCAS(t) /\ UNCHANGED <<rwvars, seqvars, ptrvars, ctrvars, wrvars, atvars, fuvars, exvars, bovars>>
        \/ MutexGuardDrop(t) /\ UNCHANGED <<rwvars, seqvars, ptrvars, ctrvars, wrvars, atvars, fuvars, exvars, bovars>>

SpecMutex == Init /\ [][MutexNext]_vars

\* The same, a thread inside lock()'s loop being scheduled again and again;
\* whether a guard is ever dropped is left to its holder
FairSpecMutex ==
    /\ SpecMutex
    /\ \A t \in Threads :
         WF_vars(MutexLockCAS(t) /\ UNCHANGED <<rwvars, seqvars, ptrvars, ctrvars, wrvars, atvars, fuvars, exvars, bovars>>)

\* Threads using one SpinRwLock
RwNext ==
    \E t \in Threads :
        \/ RwWriteCall(t) /\ UNCHANGED <<mutexvars, seqvars, ptrvars, ctrvars, wrvars, atvars, fuvars, exvars, bovars>>
        \/ RwWriteCAS(t) /\ UNCHANGED <<mutexvars, seqvars, ptrvars, ctrvars, wrvars, atvars, fuvars, exvars, bovars>>
        \/ RwReadCall(t) /\ UNCHANGED <<mutexvars, seqvars, ptrvars, ctrvars, wrvars, atvars, fuvars, exvars, bovars>>
        \/ RwReadStep(t) /\ UNCHANGED <<mutexvars, seqvars, ptrvars, ctrvars, wrvars, atvars, fuvars, exvars, bovars>>
        \/ RwReadGuardDrop(t) /\ UNCHANGED <<mutexvars, seqvars, ptrvars, ctrvars, wrvars, atvars, fuvars, exvars, bovars>>
        \/ RwWriteGuardDrop(t) /\ UNCHANGED <<mutexvars, seqvars, ptrvars, ctrvars, wrvars, atvars, fuvars, exvars, bovars>>

SpecRw == Init /\ [][RwNext]_vars

\* The same, a thread inside the loop of write() or read() being scheduled
\* again and again; whether a guard is ever dropped is left to its holder
FairSpecRw ==
    /\ SpecRw
    /\ \A t \in Threads :
         /\ WF_vars(RwWriteCAS(t) /\ UNCHANGED <<mutexvars, seqvars, ptrvars, ctrvars, wrvars, atvars, fuvars, exvars, bovars>>)
         /\ WF_vars(RwReadStep(t) /\ UNCHANGED <<mutexvars, seqvars, ptrvars, ctrvars, wrvars, atvars, fuvars, exvars, bovars>>)

\* Threads using one value-resident SpinSeqLock
SeqNext ==
    \E t \in Threads :
        \/ SeqReadCall(t) /\ UNCHANGED <<mutexvars, rwvars, ptrvars, ctrvars, wrvars, atvars, fuvars, exvars, bovars>>
        \/ /\ seq_wstarted < MaxWrites
           /\ SeqWriteCall(t) /\ UNCHANGED <<mutexvars, rwvars, ptrvars, ctrvars, wrvars, atvars, fuvars, exvars, bovars>>
        \/ SeqReadSwap(t) /\ UNCHANGED <<mutexvars, rwvars, ptrvars, ctrvars, wrvars, atvars, fuvars, exvars, bovars>>
        \/ SeqWriteSwap(t) /\ UNCHANGED <<mutexvars, rwvars, ptrvars, ctrvars, wrvars, atvars, fuvars, exvars, bovars>>
        \/ SeqReadGuardDrop(t) /\ UNCHANGED <<mutexvars, rwvars, ptrvars, ctrvars, wrvars, atvars, fuvars, exvars, bovars>>
        \/ SeqWriteGuardDrop(t) /\ UNCHANGED <<mutexvars, rwvars, ptrvars, ctrvars, wrvars, atvars, fuvars, exvars, bovars>>
        \/ \E i \in 1 .. 2, w \in Words :
               SeqGuardWrite(t, i, w) /\ UNCHANGED <<mutexvars, rwvars, ptrvars, ctrvars, wrvars, atvars, fuvars, exvars, bovars>>
        \/ SeqLoadCall(t) /\ UNCHANGED <<mutexvars, rwvars, ptrvars, ctrvars, wrvars, atvars, fuvars, exvars, bovars>>
        \/ SeqLoadV1(t) /\ UNCHANGED <<mutexvars, rwvars, ptrvars, ctrvars, wrvars, atvars, fuvars, exvars, bovars>>
        \/ SeqLoadData(t) /\ UNCHANGED <<mutexvars, rwvars, ptrvars, ctrvars, wrvars, atvars, fuvars, exvars, bovars>>
        \/ SeqLoadV2(t) /\ UNCHANGED <<mutexvars, rwvars, ptrvars, ctrvars, wrvars, atvars, fuvars, exvars, bovars>>
        \/ SeqLoadCopy(t) /\ UNCHANGED <<mutexvars, rwvars, ptrvars, ctrvars, wrvars, atvars, fuvars, exvars, bovars>>
        \/ SeqLoadDrop(t) /\ UNCHANGED <<mutexvars, rwvars, ptrvars, ctrvars, wrvars, atvars, fuvars, exvars, bovars>>
        \/ SeqLoadReturn(t) /\ UNCHANGED <<mutexvars, rwvars, ptrvars, ctrvars, wrvars, atvars, fuvars, exvars, bovars>>
        \/ /\ seq_wstarted < MaxWrites
           /\ \E v \in Payloads : SeqStoreCall(t, v)
           /\ UNCHANGED <<mutexvars, rwvars, ptrvars, ctrvars, wrvars, atvars, fuvars, exvars, bovars>>
        \/ SeqStoreData(t) /\ UNCHANGED <<mutexvars, rwvars, ptrvars, ctrvars, wrvars, atvars, fuvars, exvars, bovars>>
        \/ SeqStoreDrop(t) /\ UNCHANGED <<mutexvars, rwvars, ptrvars, ctrvars, wrvars, atvars, fuvars, exvars, bovars>>

SpecSeq == Init /\ [][SeqNext]_vars

\* Threads using one pointer-resident SpinSeqLockAtomicPtr
PtrNext ==
    \E t \in Threads :
        \/ PtrCall(t) /\ UNCHANGED <<mutexvars, rwvars, seqvars, ctrvars, wrvars, atvars, fuvars, exvars, bovars>>
        \/ PtrStep(t) /\ UNCHANGED <<mutexvars, rwvars, seqvars, ctrvars, wrvars, atvars, fuvars, exvars, bovars>>

SpecPtr == Init /\ [][PtrNext]_vars

\* The same, every thread inside a call being scheduled again and again: a
\* spinning thread yields (thread::yield_now) and is not stopped
FairSpecPtr ==
    /\ SpecPtr
    /\ \A t \in Threads :
         WF_vars(PtrStep(t) /\ UNCHANGED <<mutexvars, rwvars, seqvars, ctrvars, wrvars, atvars, fuvars, exvars, bovars>>)

\* Threads using one cell of any of the four lock types: the other cells stay
\* as constructed
OneCellNext ==
    \/ RwInit /\ SeqInit /\ PtrInit /\ MutexNext
    \/ MutexInit /\ SeqInit /\ PtrInit /\ RwNext
    \/ MutexInit /\ RwInit /\ PtrInit /\ SeqNext
    \/ MutexInit /\ RwInit /\ SeqInit /\ PtrNext

SpecOneCell == Init /\ [][OneCellNext]_vars

\* The writer / readers scenario over a value-resident SpinSeqLock
WrScenarioInit ==
    /\ MutexInit /\ RwInit /\ PtrInit /\ CtrInit /\ ctr_kind = "none" /\ AtNone
    /\ FuInit /\ ExNone /\ BoNone
    /\ SeqInitOver(WrThreads)
    /\ WrNone

WrNext ==
    \/ WrStoreCall /\ UNCHANGED <<mutexvars, rwvars, ptrvars, ctrvars, atvars, fuvars, exvars, bovars>>
    \/ \E t \in WrThreads :
        \/ WrLoadReturn(t) /\ UNCHANGED <<mutexvars, rwvars, ptrvars, ctrvars, atvars, fuvars, exvars, bovars>>
        \/ /\ t \in WrReaderSet
           /\ SeqLoadCall(t) /\ UNCHANGED <<mutexvars, rwvars, ptrvars, ctrvars, wrvars, atvars, fuvars, exvars, bovars>>
        \/ SeqLoadV1(t) /\ UNCHANGED <<mutexvars, rwvars, ptrvars, ctrvars, wrvars, atvars, fuvars, exvars, bovars>>
        \/ SeqLoadData(t) /\ UNCHANGED <<mutexvars, rwvars, ptrvars, ctrvars, wrvars, atvars, fuvars, exvars, bovars>>
        \/ SeqLoadV2(t) /\ UNCHANGED <<mutexvars, rwvars, ptrvars, ctrvars, wrvars, atvars, fuvars, exvars, bovars>>
        \/ SeqReadSwap(t) /\ UNCHANGED <<mutexvars, rwvars, ptrvars, ctrvars, wrvars, atvars, fuvars, exvars, bovars>>
        \/ SeqLoadCopy(t) /\ UNCHANGED <<mutexvars, rwvars, ptrvars, ctrvars, wrvars, atvars, fuvars, exvars, bovars>>
        \/ SeqLoadDrop(t) /\ UNCHANGED <<mutexvars, rwvars, ptrvars, ctrvars, wrvars, atvars, fuvars, exvars, bovars>>
        \/ SeqWriteSwap(t) /\ UNCHANGED <<mutexvars, rwvars, ptrvars, ctrvars, wrvars, atvars, fuvars, exvars, bovars>>
        \/ SeqStoreData(t) /\ UNCHANGED <<mutexvars, rwvars, ptrvars, ctrvars, wrvars, atvars, fuvars, exvars, bovars>>
        \/ SeqStoreDrop(t) /\ UNCHANGED <<mutexvars, rwvars, ptrvars, ctrvars, wrvars, atvars, fuvars, exvars, bovars>>

SpecWriterReaders == WrScenarioInit /\ [][WrNext]_vars

\* Threads using one AtomicT, of either variant, T padded or not
AtInit ==
    CellsInit /\ ctr_kind = "none" /\ WrNone /\ AtNew /\ FuInit /\ ExNone /\ BoNone

AtNext ==
    \E t \in Threads :
        \/ AtLoad(t) /\ UNCHANGED <<mutexvars, rwvars, seqvars, ptrvars, ctrvars, wrvars, fuvars, exvars, bovars>>
        \/ \E v \in AtValues(at_padded) :
               AtStore(t, v) /\ UNCHANGED <<mutexvars, rwvars, seqvars, ptrvars, ctrvars, wrvars, fuvars, exvars, bovars>>
        \/ \E cur, new \in AtValues(at_padded) :
               AtCompareExchange(t, cur, new)
               /\ UNCHANGED <<mutexvars, rwvars, seqvars, ptrvars, ctrvars, wrvars, fuvars, exvars, bovars>>
        \/ AtIntoInner(t) /\ UNCHANGED <<mutexvars, rwvars, seqvars, ptrvars, ctrvars, wrvars, fuvars, exvars, bovars>>

SpecAtomicT == AtInit /\ [][AtNext]_vars

\* The shared counter scenario over each of the three locks
CtrScenarioInit ==
    CellsInit /\ ctr_kind \in CtrKinds /\ WrNone /\ AtNone /\ FuInit /\ ExNone /\ BoNone

CtrNext ==
    \E t \in Threads :
        \/ CtrLockCall(t)
        \/ CtrLockTry(t)
        \/ CtrRead(t)
        \/ CtrWrite(t)
        \/ CtrDrop(t)

SpecCounter == CtrScenarioInit /\ [][CtrNext]_vars

\* Threads acquiring and dropping the guards of a value-resident SpinSeqLock
\* whose version is about to reach usize::MAX, in either build
SeqWrapNext ==
    \E t \in Threads :
        \/ SeqReadCall(t) /\ UNCHANGED <<mutexvars, rwvars, ptrvars, ctrvars, wrvars, atvars, fuvars, exvars, bovars>>
        \/ /\ seq_wstarted < SeqWrapWrites + MaxWrites
           /\ SeqWriteCall(t) /\ UNCHANGED <<mutexvars, rwvars, ptrvars, ctrvars, wrvars, atvars, fuvars, exvars, bovars>>
        \/ SeqReadSwap(t) /\ UNCHANGED <<mutexvars, rwvars, ptrvars, ctrvars, wrvars, atvars, fuvars, exvars, bovars>>
        \/ SeqWriteSwap(t) /\ UNCHANGED <<mutexvars, rwvars, ptrvars, ctrvars, wrvars, atvars, fuvars, exvars, bovars>>
        \/ SeqWritePanic(t) /\ UNCHANGED <<mutexvars, rwvars, ptrvars, ctrvars, wrvars, atvars, fuvars, exvars, bovars>>
        \/ SeqReadGuardDrop(t) /\ UNCHANGED <<mutexvars, rwvars, ptrvars, ctrvars, wrvars, atvars, fuvars, exvars, bovars>>
        \/ SeqWriteGuardDrop(t) /\ UNCHANGED <<mutexvars, rwvars, ptrvars, ctrvars, wrvars, atvars, fuvars, exvars, bovars>>

SeqWrapScenarioInit ==
    /\ MutexInit /\ RwInit /\ PtrInit /\ CtrInit /\ ctr_kind = "none"
    /\ WrNone /\ AtNone /\ FuInit /\ ExNone /\ BoNone
    /\ SeqWrapInit

SpecSeqWrap == SeqWrapScenarioInit /\ [][SeqWrapNext]_vars

\* Threads calling replace() and take() on one value-resident SpinSeqLock
ExNext ==
    \E t \in Threads :
        \/ /\ seq_wstarted < MaxWrites
           /\ \E v \in Payloads : ExReplaceCall(t, v)
           /\ UNCHANGED <<mutexvars, rwvars, ptrvars, ctrvars, wrvars, atvars, fuvars, bovars>>
        \/ /\ seq_wstarted < MaxWrites
           /\ ExTakeCall(t)
           /\ UNCHANGED <<mutexvars, rwvars, ptrvars, ctrvars, wrvars, atvars, fuvars, bovars>>
        \/ SeqWriteSwap(t) /\ UNCHANGED <<mutexvars, rwvars, ptrvars, ctrvars, wrvars, atvars, fuvars, exvars, bovars>>
        \/ SeqReplaceRead(t) /\ UNCHANGED <<mutexvars, rwvars, ptrvars, ctrvars, wrvars, atvars, fuvars, exvars, bovars>>
        \/ SeqStoreData(t) /\ UNCHANGED <<mutexvars, rwvars, ptrvars, ctrvars, wrvars, atvars, fuvars, exvars, bovars>>
        \/ SeqStoreDrop(t) /\ UNCHANGED <<mutexvars, rwvars, ptrvars, ctrvars, wrvars, atvars, fuvars, exvars, bovars>>
        \/ ExReturn(t) /\ UNCHANGED <<mutexvars, rwvars, ptrvars, ctrvars, wrvars, atvars, fuvars, bovars>>

SpecExchange == Init /\ [][ExNext]_vars

\* Threads calling fetch_update on one AtomicT, of either variant, T padded
\* or not
FuNext ==
    \E t \in Threads :
        \/ \E f \in FuClosures : FuCall(t, f) /\ UNCHANGED <<mutexvars, rwvars, seqvars, ptrvars, ctrvars, wrvars, exvars, bovars>>
        \/ FuLoad(t) /\ UNCHANGED <<mutexvars, rwvars, seqvars, ptrvars, ctrvars, wrvars, exvars, bovars>>
        \/ FuCas(t) /\ UNCHANGED <<mutexvars, rwvars, seqvars, ptrvars, ctrvars, wrvars, exvars, bovars>>

SpecFetchUpdate == AtInit /\ [][FuNext]_vars

\* One Backoff<B>, B any limit of the model, snoozed again and again
BoNext ==
    \/ BoSnooze /\ UNCHANGED <<mutexvars, rwvars, seqvars, ptrvars, ctrvars, wrvars, atvars, fuvars, exvars>>
    \/ BoNew /\ UNCHANGED <<mutexvars, rwvars, seqvars, ptrvars, ctrvars, wrvars, atvars, fuvars, exvars>>

BoScenarioInit ==
    /\ CellsInit /\ ctr_kind = "none" /\ WrNone /\ AtNone /\ FuInit /\ ExNone
    /\ BoInit

SpecBackoff == BoScenarioInit /\ [][BoNext]_vars


\* ------------------------------------------------------------------ claims

\* C1 (SpecMutex): at most one SpinMutex guard of the cell is live at any
\* instant, and the flag locked is true exactly while a guard is live.
C1_MutexOneGuard ==
    /\ \A t, u \in Threads :
         mutex_guards[t] > 0 /\ mutex_guards[u] > 0 => t = u
    /\ \A t \in Threads : mutex_guards[t] <= 1
    /\ mutex_locked <=> \E t \in Threads : mutex_guards[t] > 0

\* C1 witness: one thread holds the guard while another has already failed an
\* attempt inside lock().
C1_Witness ==
    \E t, u \in Threads :
        /\ t # u
        /\ mutex_guards[t] = 1
        /\ mutex_pc[u] = "lock"
        /\ mutex_bk[u] > BackoffNew

\* C2 (SpecSeq): at most one guard, read or write, of the value-resident
\* SpinSeqLock is live at any instant, and while a guard is live the version is
\* the LOCKED sentinel.
C2_SeqOneGuard ==
    /\ Cardinality(seq_guards) <= 1
    /\ seq_guards # {} => seq_version = SEQ_LOCKED

\* C2 witness: a read guard is live while another thread's read() has already
\* failed an attempt: read() excludes read().
C2_Witness ==
    \E g \in seq_guards : \E u \in Threads :
        /\ g.kind = "read"
        /\ u # g.owner
        /\ seq_op[u] = "read"
        /\ seq_pc[u] = "read"
        /\ seq_bk[u] > BackoffNew

\* C3 (SpecRw): while a write guard of the SpinRwLock is live no other guard
\* of the cell, read or write, is live.
C3_RwWriterExclusive ==
    \A t \in Threads :
        rw_wguards[t] > 0 =>
            /\ rw_wguards[t] = 1
            /\ rw_rguards[t] = 0
            /\ \A u \in Threads \ {t} : RwHeld(u) = 0

\* C3 witness: a write guard is live while another thread's read() has seen
\* the write-locked counter and backed off.
C3_Witness ==
    \E t, u \in Threads :
        /\ t # u
        /\ rw_wguards[t] = 1
        /\ rw_pc[u] = "read"
        /\ rw_current[u] = SPIN_RW_LOCK_LOCKED
        /\ rw_bk[u] > BackoffNew

\* C4 (SpecSeq): every payload load() returns is one the cell wholly held
\* while unlocked: the initial payload or the payload at a write guard's
\* release; never a mix of words of two of them.
C4_LoadNotTorn ==
    \A t \in Threads :
        seq_pc[t] = "ld_ret" => seq_loc[t].d \in seq_stored

\* C4 witness: a load() returns a written payload while a writer has the
\* payload half written.
C4_Witness ==
    \E t \in Threads :
        /\ seq_pc[t] = "ld_ret"
        /\ seq_loc[t].d # <<0, 0>>
        /\ seq_data \notin seq_stored

\* C9 (SpecSeq): whenever no guard is live the version is the initial version
\* plus the number of write guards released; read guards and load() calls
\* add nothing.
C9_VersionCountsWrites ==
    seq_guards = {} => seq_version = SEQ_UNLOCKED_LOCK + seq_wreleased

\* C9 witness: two write guards have been released, no guard is live, and a
\* load() has just completed.
C9_Witness ==
    /\ seq_guards = {}
    /\ seq_wreleased = 2
    /\ \E t \in Threads : seq_pc[t] = "ld_ret"

\* C10 (SpecCounter): when every thread has completed its increments the
\* counter equals threads times increments, under each of the three locks.
C10_NoLostUpdate ==
    (\A t \in Threads : ctr_done[t] = CtrIncrements)
        => ctr_value = NThreads * CtrIncrements

\* C10 witness: every thread has completed its increments.
C10_Witness ==
    /\ \A t \in Threads : ctr_done[t] = CtrIncrements
    /\ ctr_value > 0

\* The public operation thread t is inside, or "none"
PtrPublic(t) == IF ptr_stack[t] = <<>> THEN "none" ELSE ptr_stack[t][1].fn

\* C5 (SpecPtr): try_read() and try_write() of the pointer-resident SeqLock
\* are single attempts: inside a public try_* call the version is swapped
\* once and the retry loop of read()/write() is never entered.
C5_TryIsSingleAttempt ==
    \A t \in Threads :
        PtrPublic(t) \in {"try_read", "try_write"} =>
            \A i \in 2 .. Len(ptr_stack[t]) :
                ptr_stack[t][i].fn \notin {"read", "write", "try_read", "try_write"}

\* C6 (FairSpecPtr): provided every guard a thread holds is released again,
\* every call of read() or write() on the pointer-resident SeqLock returns a
\* guard to its caller.
C6_ReadWriteReturnGuard ==
    (\A u \in Threads : []<>(ptr_held[u] = {})) =>
        \A t \in Threads :
            [](PtrPublic(t) \in {"read", "write"} =>
                   <>(ptr_stack[t] = <<>> /\ ptr_held[t] # {}))

\* C7 (FairSpecPtr): every store(p) and replace(p) on the pointer-resident
\* SeqLock completes, leaving p stored.
C7_StoreReplaceComplete ==
    \A t \in Threads : \A p \in Ptrs :
        (PtrPublic(t) \in {"store", "replace"} /\ ptr_stack[t][1].arg = p)
            ~> (ptr_stack[t] = <<>> /\ ptr_ptr = p)

\* Number of live guards of each kind over all threads
RECURSIVE RwSum(_, _)
RwSum(f, S) ==
    IF S = {} THEN 0
    ELSE LET t == CHOOSE x \in S : TRUE IN f[t] + RwSum(f, S \ {t})

\* C12 (SpecRw): the reader counter is -1 exactly when a write guard is live,
\* otherwise it is the number of live read guards (0 when unlocked); it is
\* never below -1.
C12_RwCounter ==
    /\ rw_readers >= SPIN_RW_LOCK_LOCKED
    /\ (rw_readers = SPIN_RW_LOCK_LOCKED) <=> (RwSum(rw_wguards, Threads) > 0)
    /\ RwSum(rw_wguards, Threads) = 0 => rw_readers = RwSum(rw_rguards, Threads)
    /\ RwSum(rw_wguards, Threads) + RwSum(rw_rguards, Threads) = 0
           => rw_readers = SPIN_RW_LOCK_UNLOCKED

\* C12 witness: one read guard is live, the counter is 1, and another
\* thread's write() has failed an attempt against it.
C12_Witness ==
    \E t, u \in Threads :
        /\ t # u
        /\ rw_readers = 1
        /\ rw_rguards[t] = 1
        /\ rw_rguards[u] = 0
        /\ rw_pc[u] = "write"
        /\ rw_bk[u] > BackoffNew

\* C13 (SpecRw): a read() that has loaded a counter without the write-locked
\* sentinel, still current, does not back off, whatever the number of read
\* guards other threads hold: its step returns the guard.
C13_ReadersShare ==
    [][\A t \in Threads :
          (/\ rw_pc[t] = "read"
           /\ rw_current[t] # SPIN_RW_LOCK_LOCKED
           /\ rw_readers = rw_current[t])
          => \/ rw_bk'[t] = rw_bk[t] /\ rw_pc'[t] = "read"
                /\ rw_rguards'[t] = rw_rguards[t]
             \/ rw_pc'[t] = "idle" /\ rw_rguards'[t] = rw_rguards[t] + 1
                /\ rw_readers' = rw_readers + 1]_vars

\* C13 witness: two threads hold a read guard at the same time.
C13_Witness ==
    \E t, u \in Threads :
        /\ t # u
        /\ rw_rguards[t] > 0
        /\ rw_rguards[u] > 0
        /\ rw_readers >= 2

\* C14 (FairSpecMutex), as stated: provided every guard another thread holds
\* is released again, a thread that calls lock() holding no guard of the cell
\* eventually obtains the guard.
C14_LockEventuallyReturns ==
    \A t \in Threads :
        (\A u \in Threads \ {t} : []<>(mutex_guards[u] = 0))
            => [](mutex_pc[t] = "lock" /\ mutex_guards[t] = 0
                    => <>(mutex_guards[t] > 0))

\* C14, amended (FairSpecMutex): provided that from some point on no other
\* thread holds a guard of the cell, a thread that calls lock() holding no
\* guard of the cell eventually obtains the guard.
C14_LockReturnsOnceFree ==
    \A t \in Threads :
        <>[](\A u \in Threads \ {t} : mutex_guards[u] = 0)
            => [](mutex_pc[t] = "lock" /\ mutex_guards[t] = 0
                    => <>(mutex_guards[t] > 0))

\* C14 witness: a thread is still inside lock() after failed attempts and the
\* guard that opposed it has been released.
C14_Witness ==
    \E t \in Threads :
        /\ mutex_pc[t] = "lock"
        /\ mutex_bk[t] > BackoffNew
        /\ mutex_locked = FALSE
        /\ \A u \in Threads : mutex_guards[u] = 0

\* C15 (FairSpecRw), as stated: provided every guard another thread holds is
\* released again, a thread that calls write() holding no guard of the cell
\* eventually obtains the write guard.
C15_WriteEventuallyReturns ==
    \A t \in Threads :
        (\A u \in Threads \ {t} : []<>(RwHeld(u) = 0))
            => [](rw_pc[t] = "write" /\ RwHeld(t) = 0
                    => <>(rw_wguards[t] > 0))

\* C15, amended (FairSpecRw): provided that from some point on no other
\* thread holds a guard of the cell, a thread that calls write() holding no
\* guard of the cell eventually obtains the write guard.
C15_WriteReturnsOnceFree ==
    \A t \in Threads :
        <>[](\A u \in Threads \ {t} : RwHeld(u) = 0)
            => [](rw_pc[t] = "write" /\ RwHeld(t) = 0
                    => <>(rw_wguards[t] > 0))

\* C15 witness: a thread is still inside write() after failed attempts and
\* the read guards that opposed it have been released.
C15_Witness ==
    \E t \in Threads :
        /\ rw_pc[t] = "write"
        /\ rw_bk[t] > BackoffNew
        /\ rw_readers = SPIN_RW_LOCK_UNLOCKED
        /\ \A u \in Threads : RwHeld(u) = 0

\* C20 (SpecSeq): dropping a read guard of the value-resident SeqLock restores
\* the version its acquisition swapped out (the initial version plus the
\* write guards released so far) and the payload does not change while the
\* read guard is live; dropping a write guard stores that version plus one.
C20_ReadGuardNeutral ==
    [][/\ (\E g \in seq_guards : g.kind = "read") => seq_data' = seq_data
       /\ \A g \in seq_guards \ seq_guards' :
             IF g.kind = "read"
             THEN seq_version' = SEQ_UNLOCKED_LOCK + seq_wreleased
             ELSE seq_version' = SEQ_UNLOCKED_LOCK + seq_wreleased + 1]_vars

\* C20 witness: a read guard taken after a write has been released and the
\* payload changed is live: it holds the advanced version 2 it swapped out.
C20_Witness ==
    \E g \in seq_guards :
        /\ g.kind = "read"
        /\ g.v = SEQ_UNLOCKED_LOCK + 1
        /\ seq_wreleased = 1
        /\ seq_data # <<0, 0>>

\* C17 (SpecPtr): a try_read() or try_write() whose swap finds the version
\* LOCKED returns None at that step, and the step leaves the version LOCKED,
\* the stored pointer and every held guard as they were.
C17_TryFailsCleanly ==
    [][\A t \in Threads :
          (/\ PtrPublic(t) \in {"try_read", "try_write"}
           /\ Len(ptr_stack[t]) = 1
           /\ ptr_stack[t][1].pc = "swap"
           /\ ptr_version = LOCKED
           /\ ptr_stack'[t] # ptr_stack[t])
          => /\ ptr_stack'[t] = <<>>
             /\ ptr_ret'[t].tag = "none"
             /\ ptr_version' = LOCKED
             /\ ptr_ptr' = ptr_ptr
             /\ ptr_held' = ptr_held]_vars

\* C17 witness: a try_* call has returned None to its caller and the version
\* is LOCKED.
C17_Witness ==
    \E t \in Threads :
        /\ ptr_stack[t] = <<>>
        /\ ptr_ret[t].tag = "none"
        /\ ptr_version = LOCKED

\* The guards of the value-resident SeqLock thread t holds
SeqHeld(t) == Cardinality(SeqGuardsOf(t, "read") \cup SeqGuardsOf(t, "write"))

\* C16 (SpecRw), as stated: for every lock type a thread that holds a guard
\* of a cell never obtains a second guard of that cell, of either kind: no
\* thread ever holds two guards of one cell.
C16_NestedNeverObtained ==
    \A t \in Threads :
        /\ mutex_guards[t] <= 1
        /\ RwHeld(t) <= 1
        /\ SeqHeld(t) <= 1
        /\ Cardinality(ptr_held[t]) <= 1

\* C16, amended (SpecOneCell): the same, except that a thread holding only
\* read guards of a SpinRwLock obtains further read guards of it: no thread
\* ever holds two guards of one cell unless they are SpinRwLock read guards.
C16_NestedBlocksExceptReads ==
    \A t \in Threads :
        /\ mutex_guards[t] <= 1
        /\ rw_wguards[t] > 0 => RwHeld(t) = 1
        /\ SeqHeld(t) <= 1
        /\ Cardinality(ptr_held[t]) <= 1

\* C16 witness: a thread holding a read guard of a SpinRwLock that no other
\* thread uses is inside write() and has backed off to the limit.
C16_Witness ==
    \E t \in Threads :
        /\ rw_rguards[t] = 1
        /\ rw_pc[t] = "write"
        /\ rw_bk[t] = DEFAULT_SPIN_LIMIT + 1
        /\ \A u \in Threads \ {t} : RwHeld(u) = 0 /\ rw_pc[u] = "idle"

\* C11 (SpecWriterReaders): with one writer storing 1, 2, .., N in order and
\* readers calling load() repeatedly, every payload a load() returns is one of
\* 0, 1, .., N and is not below the payload the same reader's previous load()
\* returned.
C11_LoadsInRangeMonotone ==
    \A t \in WrReaderSet :
        seq_pc[t] = "ld_ret" =>
            /\ seq_loc[t].d \in {WrValue(k) : k \in 0 .. WrWrites}
            /\ seq_loc[t].d[1] >= wr_last[t][1]

\* C11 witness: a reader that was given 1 before is given 2 while another
\* reader is inside its optimistic read.
C11_Witness ==
    \E t, u \in WrReaderSet :
        /\ t # u
        /\ seq_pc[t] = "ld_ret"
        /\ seq_loc[t].d = WrValue(2)
        /\ wr_last[t] = WrValue(1)
        /\ seq_pc[u] \in {"ld_d1", "ld_d2", "ld_v2"}

\* C18 (SpecAtomicT): every load() and into_inner() of an AtomicT returns the
\* value last written by new(), store() or a successful compare_exchange(),
\* field for field.
C18_RoundTrip ==
    [][(at_last' # at_last /\ at_last'.op \in {"load", "into_inner"})
          => at_last'.val = at_written]_vars

\* C18 witness: a load() of the strict variant returns the value <<0, 1>>,
\* whose two fields differ, from the bit image that has only the high field
\* set.
C18_Witness ==
    /\ at_variant = "strict"
    /\ at_last.op = "load"
    /\ at_last.val = <<0, 1>>
    /\ at_data = AtBase

\* C19 (SpecAtomicT), as stated: a compare_exchange(current, new) on a cell
\* whose stored value equals current stores new and returns Ok(current);
\* otherwise it returns Err(the stored value) and leaves the cell unchanged.
C19_CompareExchange ==
    [][(at_last' # at_last /\ at_last'.op = "compare_exchange")
          => IF at_written = at_last'.cur
             THEN /\ at_last'.ok
                  /\ at_last'.val = at_last'.cur
                  /\ at_written' = at_last'.new
             ELSE /\ ~at_last'.ok
                  /\ at_last'.val = at_written
                  /\ at_data' = at_data
                  /\ at_written' = at_written]_vars

\* C19, amended (SpecAtomicT): the comparison is of bit images.  Ok is
\* returned only if the stored value equals current, and then new is stored
\* and the payload is current; Err carries the stored value and leaves the
\* cell unchanged; and when T has no padding bytes a stored value equal to
\* current always gives Ok.
C19_CompareExchangeBitwise ==
    [][(at_last' # at_last /\ at_last'.op = "compare_exchange")
          => IF at_last'.ok
             THEN /\ at_written = at_last'.cur
                  /\ at_last'.val = at_last'.cur
                  /\ at_written' = at_last'.new
                  /\ TransmuteToT(at_padded, at_data') = at_last'.new
             ELSE /\ at_last'.val = at_written
                  /\ at_data' = at_data
                  /\ at_written' = at_written
                  /\ at_written = at_last'.cur => at_padded]_vars

\* C19 witness: on the uninit-tolerant variant with a padded T a
\* compare_exchange whose current equals the stored value has returned Err
\* with that value: the padding bits differed.
C19_Witness ==
    /\ at_variant = "uninit"
    /\ at_padded
    /\ at_last.op = "compare_exchange"
    /\ ~at_last.ok
    /\ at_last.val = at_last.cur

\* C21 (SpecSeq): while a guard of the value-resident SeqLock is live, another
\* thread's load() that reads the version sees LOCKED and goes to read(),
\* where it stays; no load() gets to its result while a guard other than its
\* own temporary read guard is live.
C21_LoadWaitsForGuard ==
    [][\A t \in Threads :
          seq_op[t] = "load" =>
            /\ (seq_guards # {} /\ seq_pc[t] \in {"ld_v1", "read"})
                  => seq_pc'[t] \in {seq_pc[t], "read"}
            /\ (seq_pc[t] # "ld_ret" /\ seq_pc'[t] = "ld_ret")
                  => \/ seq_guards = {}
                     \/ seq_pc[t] = "ld_drop" /\ seq_guards' = {}]_vars

\* C21 witness: a load() has fallen back to read() and failed attempts there
\* while another thread's guard is live.
C21_Witness ==
    \E t \in Threads : \E g \in seq_guards :
        /\ g.owner # t
        /\ seq_op[t] = "load"
        /\ seq_pc[t] = "read"
        /\ seq_loc[t].version = SEQ_LOCKED
        /\ seq_bk[t] > BackoffNew

\* C22 (SpecSeq): load() of the value-resident SeqLock goes to the exclusive
\* read guard only after it has retried the optimistic read: a load() inside
\* its fallback has made more than one optimistic attempt.
C22_LoadRetriesOptimistic ==
    \A t \in Threads :
        (seq_op[t] = "load" /\ seq_pc[t] \in {"read", "ld_copy", "ld_drop"})
            => seq_loc[t].tries > 1

\* C24 (SpecSeq): no step of a load() changes the payload or the count of
\* generations; a step of it leaves the version as it was, except that the
\* fallback sets it LOCKED for its temporary read guard and the drop of that
\* guard restores the generation it had; a load() about to return holds no
\* guard.
C24_LoadDoesNotMutate ==
    [][\A t \in Threads :
          (seq_op[t] = "load" /\ seq_pc'[t] # seq_pc[t])
            => /\ seq_data' = seq_data
               /\ seq_wreleased' = seq_wreleased
               /\ seq_stored' = seq_stored
               /\ IF seq_pc[t] = "read" THEN seq_version' = SEQ_LOCKED
                  ELSE IF seq_pc[t] = "ld_drop"
                       THEN seq_version' = SEQ_UNLOCKED_LOCK + seq_wreleased
                       ELSE seq_version' = seq_version
               /\ seq_pc'[t] = "ld_ret" => SeqHeld(t)' = 0]_vars

\* C24 witness: a load() that found the cell LOCKED is about to return the
\* payload of generation 2 from its fallback: no guard is live and the
\* version is 2 again.
C24_Witness ==
    \E t \in Threads :
        /\ seq_pc[t] = "ld_ret"
        /\ seq_loc[t].version = SEQ_LOCKED
        /\ seq_guards = {}
        /\ seq_version = SEQ_UNLOCKED_LOCK + 1
        /\ seq_loc[t].d = seq_data

\* C23 (SpecSeqWrap): whenever no guard of the value-resident SeqLock is
\* live, the version is not LOCKED, also after the release of a write guard
\* whose acquisition swapped out usize::MAX.
C23_SentinelNeverGeneration ==
    seq_guards = {} => seq_version # SEQ_LOCKED

\* No replace() or take() in progress
ExQuiet == seq_guards = {} /\ \A t \in Threads : seq_pc[t] = "idle"

\* C25 (SpecExchange): once the replace() and take() calls have returned, the
\* payloads returned together with the payload in the cell are, counted with
\* multiplicity, the initial payload together with the payloads passed in;
\* and with no guard live the version is the initial one plus the number of
\* calls that have dropped their guard.
C25_ExchangeConserves ==
    /\ ExQuiet =>
         \A p \in Payloads :
             ex_out[p] + (IF seq_data = p THEN 1 ELSE 0)
                 = ex_in[p] + (IF p = <<0, 0>> THEN 1 ELSE 0)
    /\ seq_guards = {} =>
         seq_version = SEQ_UNLOCKED_LOCK + RwSum(ex_out, Payloads)
                         + Cardinality({t \in Threads : seq_pc[t] = "rp_ret"})

\* C25 witness: two calls have returned, one the initial payload <<0, 0>> and
\* one the payload <<1, 1>> that the other passed in; the cell holds <<0, 1>>
\* at version 3.
C25_Witness ==
    /\ ExQuiet
    /\ ex_out[<<0, 0>>] = 1
    /\ ex_out[<<1, 1>>] = 1
    /\ ex_in[<<1, 1>>] = 1
    /\ ex_in[<<0, 1>>] = 1
    /\ seq_data = <<0, 1>>
    /\ seq_version = SEQ_UNLOCKED_LOCK + 2

\* C26 (SpecFetchUpdate): a fetch_update whose closure returns a value ends
\* with Ok(previous), previous being the value in the cell at the step that
\* stores the closure's result for it; one whose closure returns none ends
\* with Err of the value it loaded and leaves the cell as it is; the cell
\* holds the initial value plus the number of "add1" calls that returned, all
\* of them once no call is in progress.
C26_FetchUpdate ==
    [][/\ \A t \in Threads :
            (fu_pc[t] = "cas" /\ fu_pc'[t] = "idle") =>
              LET seen == TransmuteToT(at_padded, fu_prev[t])
              IN  /\ at_last'.op = "fetch_update"
                  /\ at_last'.t = t
                  /\ at_last'.val = seen
                  /\ IF fu_f[t] = "none"
                     THEN ~at_last'.ok /\ at_data' = at_data
                     ELSE /\ at_last'.ok
                          /\ seen = TransmuteToT(at_padded, at_data)
                          /\ AtNum(TransmuteToT(at_padded, at_data'))
                               = (AtNum(seen) + 1) % AtSpan(at_padded)
       /\ AtNum(TransmuteToT(at_padded, at_data'))
            = (AtNum(fu_init) + fu_added') % AtSpan(at_padded)
       /\ (\A t \in Threads : fu_pc'[t] = "idle")
            => fu_added' = fu_calls'["add1"]]_vars

\* C26 witness: two "add1" calls have returned Ok on a cell of an unpadded T,
\* and the call that returned last had a closure returning none: it returned
\* Err of the initial value plus 2.
C26_Witness ==
    /\ ~at_padded
    /\ \A t \in Threads : fu_pc[t] = "idle"
    /\ fu_added = 2
    /\ at_last.op = "fetch_update"
    /\ ~at_last.ok
    /\ AtNum(at_last.val) = (AtNum(fu_init) + 2) % AtSpan(at_padded)

\* h = 2^k
RECURSIVE BoIsPow2(_, _)
BoIsPow2(h, k) ==
    IF k = 0 THEN h = 1
    ELSE h > 0 /\ h % 2 = 0 /\ BoIsPow2(h \div 2, k - 1)

\* C27 (SpecBackoff): for B > 0 in a build with std, new() leaves step 1; the
\* k-th snooze() for k <= B performs 2^k spin hints, does not yield and
\* leaves step k + 1; every later snooze() yields, performs no spin hint and
\* leaves step B + 1; step never exceeds B + 1.
C27_SnoozePositive ==
    (bo_limit > 0 /\ bo_std) =>
        /\ ~bo_panicked
        /\ bo_step <= bo_limit + 1
        /\ bo_k = 0 => bo_step = 1
        /\ (bo_k >= 1 /\ bo_k <= bo_limit) =>
             /\ BoIsPow2(bo_hints, bo_k)
             /\ ~bo_yielded
             /\ bo_step = bo_k + 1
        /\ bo_k > bo_limit =>
             /\ bo_yielded
             /\ bo_hints = 0
             /\ bo_step = bo_limit + 1

\* C28 (SpecBackoff): for B < 0 every snooze() performs 2^(-B-1) spin hints,
\* does not yield and leaves step 1; for B = 0 every snooze() leaves step 1,
\* and yields in a build with std.
C28_SnoozeNonPositive ==
    bo_k >= 1 =>
        /\ bo_limit < 0 =>
             /\ ~bo_panicked
             /\ BoIsPow2(bo_hints, 0 - bo_limit - 1)
             /\ ~bo_yielded
             /\ bo_step = 1
        /\ bo_limit = 0 =>
             /\ ~bo_panicked
             /\ bo_std => bo_yielded /\ bo_hints = 0
             /\ bo_step = 1

=============================================================================
